---- MODULE Spec2Model ----
(***************************************************************************)
(* Model of the permission pipeline of core/pipeline.py                    *)
(* (PermissionPipeline.execute and its six steps, rollback and finalize)   *)
(* together with the parts of core/integrity.py and                        *)
(* core/permission_fixer.py that execute() calls.                          *)
(*                                                                         *)
(* A permission mode is the integer os.stat reports (0o777 = 511).  A      *)
(* permission string such as "644" is the sequence of its octal digits.    *)
(* A path is the index of its record in files_data (the paths of one batch *)
(* are distinct).  The process owns the files it may chmod and is not      *)
(* root, so a file is readable iff its owner-read bit is set.              *)
(***************************************************************************)
EXTENDS Integers, Sequences, FiniteSets, TLC

\* ---------------------------------------------------------------- bounds
MaxFiles == 2
MaxCorrupt == 1
MaxDenied == 1
\* the rate limiter's parameters, and the last second of the clock
max_attempts == 2
window_seconds == 2
MaxTime == 4
MaxEntries == 2
MaxPathLen == 4
MaxManifest == 1
MaxRuns == 2
RerunFiles == 1
MaxEncTime == 2
MaxChanges == 3
MaxBackupFiles == 2
MaxBackupCalls == 2
MaxBackupTime == 2
MaxStoredAttempts == 3

\* Python's None: "None" where the value is otherwise a string; Nil where it
\* is otherwise a number, a dict or an object, whose value v is then <<v>>
None == "None"
Nil == <<>>

\* ------------------------------------------------- octal strings and bits
RECURSIVE ParseOct(_)
\* int(s, 8) for a string of octal digits
ParseOct(s) ==
    IF s = <<>> THEN 0
    ELSE 8 * ParseOct(SubSeq(s, 1, Len(s) - 1)) + s[Len(s)]

RECURSIVE OctStr(_)
\* oct(m)[2:]
OctStr(m) ==
    IF m < 8 THEN <<m>> ELSE Append(OctStr(m \div 8), m % 8)

\* mode & 0o777
PermBits(m) == m % ParseOct(<<1, 0, 0, 0>>)

Bit(m, k) == (m \div (2 ^ k)) % 2

\* PermissionFixer.determine_appropriate_permission for a regular file that
\* is no symlink and has no executable extension
DetermineAppropriatePermission(m) ==
    IF Bit(m, 6) = 1 \/ Bit(m, 3) = 1 \/ Bit(m, 0) = 1
    THEN ParseOct(<<7, 5, 5>>)
    ELSE ParseOct(<<6, 4, 4>>)

\* dict.get(key, default) of a dict modelled as a function of its keys
DictGet(d, k, default) == IF k \in DOMAIN d THEN d[k] ELSE default

EmptyDict == [x \in {} |-> None]

\* ------------------------------------------------------- PipelineStep enum
SCAN == "scan"
BACKUP == "backup"
HASH_BEFORE == "hash_before"
ENCRYPT == "encrypt"
CHANGE_PERMISSION == "change_permission"
HASH_AFTER == "hash_after"
COMPLETED == "completed"
FAILED == "failed"
ROLLED_BACK == "rolled_back"

\* the modes and declared expectations the batches are drawn from; a batch
\* run with a custom mode declares no expectations
InitModes == {ParseOct(<<7, 7, 7>>), ParseOct(<<6, 4, 4>>)}
ExpectedChoices == {<<>>, <<2, 0, 0>>}
CustomModes == {Nil, <<ParseOct(<<6, 4, 4>>)>>}

VARIABLES
    files_data,           \* the batch given to execute(): seq of [path, expected]
    custom_mode,          \* execute()'s custom_mode argument
    enable_encryption,    \* constructor argument
    encryption_password,  \* constructor argument (None or a password)
    progress_callback,    \* TRUE iff a progress callback is registered
    step_callback,        \* TRUE iff a step callback is registered
    fsMode,               \* file system: existing path -> permission mode
    fsContent,            \* file system: existing path -> content
    pc,                   \* position of the execute() call
    current_step,         \* self.current_step
    is_cancelled,         \* self._is_cancelled
    hashes_before,        \* self._hashes_before: dict path -> hash
    encrypted_files,      \* self._encrypted_files
    result,               \* the PipelineResult of the call
    rollback_stack,       \* execute()'s local rollback_stack
    cp,                   \* locals of _step_change_permission
    hashes_after,         \* local hashes_after of _step_hash_after
    audit_logs,           \* rows of table audit_logs
    file_hashes,          \* rows of table file_hashes, by file_path
    backups,              \* permission backups written by create_backup
    enc_files,            \* encrypted backup artifacts on disk
    orig_mode,            \* history: the modes at the start of the run
    corrupted,            \* history: paths whose content was rewritten meanwhile
    env_faults            \* history: the kinds of fault the environment has shown

\* The crypto engine and its rate limiter (core/security.py)
VARIABLES
    rate_limit_attempts,  \* rows of table rate_limit_attempts, in insert order
    now,                  \* time.time(), in seconds
    decrypt_calls,        \* caller -> position of its decrypt_data call
    last_return,          \* how the latest decrypt_data call to end has ended
    limiter_fresh         \* TRUE iff the process was restarted and its new
                          \* RateLimiter has not been asked yet

pipeline_vars ==
    <<files_data, custom_mode, enable_encryption, encryption_password,
      progress_callback, step_callback, fsMode, fsContent, pc,
      current_step, is_cancelled, hashes_before, encrypted_files, result,
      rollback_stack, cp, hashes_after, audit_logs,
      file_hashes, backups, enc_files, orig_mode, corrupted,
      env_faults>>

security_vars ==
    <<rate_limit_attempts, now, decrypt_calls, last_return, limiter_fresh>>

\* the state of the services an execute() call does not touch
\* The audit ledger (core/integrity.py)
VARIABLES
    audit_rows,           \* rows of table audit_logs with all their columns,
                          \* in insert order
    ledger_clock,         \* position of CURRENT_TIMESTAMP in ClockValues
    tamper,               \* history: the one edit made to the table from
                          \* outside the program, with the report before it
    integrity_report,     \* what verify_audit_log_integrity returned last
    written               \* history: ids of the rows log_audit_event wrote

ledger_vars == <<audit_rows, ledger_clock, tamper, integrity_report, written>>

\* restore_backup (core/backup.py)
VARIABLES
    restore_pc,           \* position of the restore_backup call
    restore_dir,          \* its local restore_dir, after abspath
    restore_results,      \* its results['restored'] and results['errors'],
                          \* in the order they were appended
    disk                  \* the paths restore_backup has written

restore_vars == <<restore_pc, restore_dir, restore_results, disk>>

\* RestoreManager.restore_files and restore_single_file (core/backup.py)
VARIABLES
    rm_pc,                \* position of the RestoreManager call
    rm_call,              \* its arguments
    rm_result,            \* restore_files: the entries of restored_files,
                          \* skipped and errors in the order appended;
                          \* restore_single_file: its result
    rm_disk,              \* the files written, each with the destination
                          \* the caller chose
    rm_history            \* entries of restore_history.json

rm_vars == <<rm_pc, rm_call, rm_result, rm_disk, rm_history>>

\* register_file_hash and verify_file_integrity (core/integrity.py)
VARIABLES
    fi_files,             \* file system: existing path -> content and
                          \* whether the process may read it
    fi_registry,          \* rows of table file_hashes, by file_path
    fi_result             \* what the latest call has returned

file_vars == <<fi_files, fi_registry, fi_result>>

\* successive execute() calls on one pipeline instance
VARIABLES
    run_no                \* history: the number of the execute() call

run_vars == <<run_no>>

\* EncryptionWorker._encrypt_file on one path (core/encryption_manager.py)
VARIABLES
    em_orig,              \* the file at the path given to _encrypt_file
    em_enc,               \* the file at that path + ".enc"
    em_quarantine,        \* .quarantine/: timestamp of the name -> file
    em_clock,             \* datetime.now(), in seconds
    em_result,            \* how the latest _encrypt_file call has ended
    em_events,            \* history: the audit events the calls have logged
    em_encrypted          \* history: the contents of the files for which
                          \* _encrypt_file has returned True

em_vars == <<em_orig, em_enc, em_quarantine, em_clock, em_result, em_events,
             em_encrypted>>

\* PermissionMetadata on permission_logs/permission_changes.json
\* (core/backup.py)
VARIABLES
    pm_file,              \* the ledger file: Nil while it does not exist
    pm_target,            \* the files the entries are about: path -> mode
    pm_result             \* how the latest call on the ledger has ended

meta_vars == <<pm_file, pm_target, pm_result>>

\* BackupManager.create_backup and restore_backup (core/backup.py) and
\* PermissionBackup.create_backup (core/permission_fixer.py)
VARIABLES
    bk_files,             \* the files to back up: existing path -> content
    bk_clock,             \* datetime.now(), in seconds
    bk_archives,          \* backups/: timestamp of backup_<t>.zip -> archive
    bk_permission,        \* the daily directory: timestamp of
                          \* backup_<t>.json -> its backup_data
    bk_restore_dir,       \* the restore directory: file name -> content
    bk_result,            \* what the latest call has returned
    bk_calls              \* history: the number of calls made

backup_vars == <<bk_files, bk_clock, bk_archives, bk_permission,
                 bk_restore_dir, bk_result, bk_calls>>

outside == <<security_vars, ledger_vars, restore_vars, rm_vars, file_vars,
    run_vars, em_vars, meta_vars, backup_vars>>

\* what the actions of each service leave alone
beyond_security ==
    <<pipeline_vars, ledger_vars, restore_vars, rm_vars, file_vars, run_vars,
    em_vars, meta_vars, backup_vars>>
beyond_ledger ==
    <<pipeline_vars, security_vars, restore_vars, rm_vars, file_vars,
    run_vars, em_vars, meta_vars, backup_vars>>
beyond_restore == <<pipeline_vars, security_vars, ledger_clock, tamper,
                    integrity_report, rm_vars, file_vars, run_vars, em_vars,
                    meta_vars, backup_vars>>
beyond_rm ==
    <<pipeline_vars, security_vars, ledger_vars, restore_vars, file_vars,
    run_vars, em_vars, meta_vars, backup_vars>>
beyond_files == <<pipeline_vars, security_vars, ledger_clock, tamper,
                  integrity_report, restore_vars, rm_vars, run_vars, em_vars,
                  meta_vars, backup_vars>>
beyond_rerun ==
    <<security_vars, ledger_vars, restore_vars, rm_vars, file_vars, em_vars,
      meta_vars, backup_vars>>

vars == <<pipeline_vars, outside>>

\* what no step of execute() changes
config == <<files_data, custom_mode, enable_encryption, encryption_password,
            progress_callback, step_callback, orig_mode, outside>>

N == Len(files_data)
Paths == 1..N

\* a callback that is registered may raise each time it is called
MayRaise(cb) == IF cb THEN BOOLEAN ELSE {FALSE}

\* The faults recorded in env_faults: the OS refused a chmod of the
\* ChangePermission step, or one of the rollback; writing a backup or hash
\* file failed; a registered callback raised.
CHMOD_REFUSED == "chmod_refused"
RESTORE_REFUSED == "restore_refused"
WRITE_FAILED == "write_failed"
CALLBACK_RAISED == "callback_raised"

Fault(cond, kind) == IF cond THEN {kind} ELSE {}

\* calculate_sha256 on content: distinct contents have distinct digests
Sha256(c) == <<"sha256", c>>

\* os.path.exists
Exists(p) == p \in DOMAIN fsMode

\* the owner-read bit: open(filepath, 'rb') succeeds
Readable(p) == Exists(p) /\ Bit(fsMode[p], 8) = 1

\* IntegrityManager.calculate_sha256: the digest, or None when unreadable
CalculateSha256(p) == IF Readable(p) THEN Sha256(fsContent[p]) ELSE Nil

StepResult(step, success, data, error, rollback_data) ==
    [step |-> step, success |-> success, data |-> data, error |-> error,
     rollback_data |-> rollback_data]

PipelineResult(total) ==
    [success |-> FALSE, completed_steps |-> <<>>, failed_step |-> Nil,
     rolled_back |-> FALSE, rollback_results |-> <<>>, end_time |-> None,
     total_files |-> total, files_processed |-> 0]

\* IntegrityManager.log_audit_event: one row appended to audit_logs
LogAuditEvent(log, action_type, file_path, severity) ==
    Append(log, [action_type |-> action_type, file_path |-> file_path,
                 severity |-> severity])

\* the threads (or processes) that call decrypt_data
Callers == {"c1", "c2"}

\* a caller that is not inside decrypt_data; no call has ended yet
NoCall == [pc |-> "idle"]
NoReturn == [kind |-> "none"]

\* the crypto engine at rest: empty table, nobody inside decrypt_data
SecurityIdle ==
    /\ rate_limit_attempts = <<>>
    /\ now = 1
    /\ decrypt_calls = [c \in Callers |-> NoCall]
    /\ last_return = NoReturn
    /\ limiter_fresh = FALSE

\* no edit from outside yet; no report yet
NoTamper == [pc |-> "none"]
NoReport == [kind |-> "none"]

\* the audit ledger empty and never verified
LedgerIdle ==
    /\ audit_rows = <<>>
    /\ ledger_clock = 1
    /\ tamper = NoTamper
    /\ integrity_report = NoReport
    /\ written = {}

\* no restore_backup call made
RestoreIdle ==
    /\ restore_pc = "idle"
    /\ restore_dir = <<>>
    /\ restore_results = <<>>
    /\ disk = {}

\* no RestoreManager call made
NoRmCall == [op |-> "none"]
RmIdle ==
    /\ rm_pc = "idle"
    /\ rm_call = NoRmCall
    /\ rm_result = <<>>
    /\ rm_disk = {}
    /\ rm_history = <<>>

\* no file registered, no verify_file_integrity call made
NoResult == [kind |-> "none"]
FilesIdle ==
    /\ fi_files = EmptyDict
    /\ fi_registry = EmptyDict
    /\ fi_result = NoResult

\* the pipeline instance has been asked for its first run at most
FirstRun == run_no = 1

\* no file to encrypt, no _encrypt_file call made
Absent == [kind |-> "absent"]
NoEncCall == [kind |-> "none"]
EncryptIdle ==
    /\ em_orig = Absent
    /\ em_enc = Absent
    /\ em_quarantine = EmptyDict
    /\ em_clock = 1
    /\ em_result = NoEncCall
    /\ em_events = {}
    /\ em_encrypted = {}

\* no ledger file yet, no call made
NoPmCall == [op |-> "none", id |-> 0, outcome |-> "none"]
MetadataIdle ==
    /\ pm_file = Nil
    /\ pm_target = EmptyDict
    /\ pm_result = NoPmCall

\* no file, no backup, no call made
NoBackupCall == [op |-> "none"]
BackupIdle ==
    /\ bk_files = EmptyDict
    /\ bk_clock = 1
    /\ bk_archives = EmptyDict
    /\ bk_permission = EmptyDict
    /\ bk_restore_dir = EmptyDict
    /\ bk_result = NoBackupCall
    /\ bk_calls = 0

Init ==
    /\ custom_mode \in CustomModes
    /\ \E n \in 0..MaxFiles :
         /\ \E ex \in [1..n -> ExpectedChoices] :
              /\ custom_mode # Nil => \A i \in 1..n : ex[i] = <<>>
              /\ files_data = [i \in 1..n |->
                                  [path |-> i, expected |-> ex[i]]]
         /\ \E existing \in SUBSET (1..n) :
              /\ fsMode \in [existing -> InitModes]
              /\ fsContent = [i \in existing |-> <<i, 0>>]
    /\ enable_encryption \in BOOLEAN
    /\ encryption_password \in (IF enable_encryption THEN {None, "pw"}
                                ELSE {None})
    /\ progress_callback \in BOOLEAN
    /\ step_callback \in BOOLEAN
    /\ orig_mode = fsMode
    /\ pc = "idle"
    /\ current_step = None
    /\ is_cancelled = FALSE
    /\ encrypted_files = {}
    /\ result = Nil
    /\ hashes_before = EmptyDict
    /\ hashes_after = EmptyDict
    /\ file_hashes = EmptyDict
    /\ rollback_stack = <<>>
    /\ cp = Nil
    /\ audit_logs = <<>>
    /\ backups = <<>>
    /\ enc_files = {}
    /\ corrupted = {}
    /\ env_faults = {}
    /\ SecurityIdle
    /\ LedgerIdle
    /\ RestoreIdle
    /\ RmIdle
    /\ FilesIdle
    /\ FirstRun
    /\ EncryptIdle
    /\ MetadataIdle
    /\ BackupIdle

\* ------------------------------------------------------------ environment
\* PermissionPipeline.cancel, called from another thread
Cancel ==
    /\ pc \notin {"done", "raised"}
    /\ ~is_cancelled
    /\ is_cancelled' = TRUE
    /\ UNCHANGED <<config, custom_mode, fsMode, fsContent, pc, current_step,
                   hashes_before, encrypted_files, result, rollback_stack,
                   cp, hashes_after, audit_logs, file_hashes, backups,
                   enc_files, corrupted, env_faults>>

\* Another process rewrites the content of a file between the two hash
\* steps.  Content is read by HashBefore and HashAfter only, so a write at
\* any moment between them is the same as a write just before HashAfter,
\* and a write before HashBefore or after HashAfter is never observed.
Corrupt ==
    /\ pc = "hash_after"
    /\ Cardinality(corrupted) < MaxCorrupt
    /\ \E p \in DOMAIN fsContent \ corrupted :
         /\ fsContent' = [fsContent EXCEPT ![p] = <<p, 1>>]
         /\ corrupted' = corrupted \cup {p}
    /\ UNCHANGED <<config, custom_mode, fsMode, pc, current_step, is_cancelled,
                   hashes_before, encrypted_files, result, rollback_stack,
                   cp, hashes_after, audit_logs, file_hashes, backups,
                   enc_files, env_faults>>

\* ------------------------------------------------- rollback and finalize
\* the changed_files a rolled-back step carries in its rollback_data
ChangedFiles(step_result) ==
    DictGet(step_result.rollback_data, "changed_files", <<>>)

RECURSIVE RestoreModes(_, _, _)
\* the chmod loop of _rollback_step (lines 575-579) over changed_files,
\* in list order; a chmod the OS refuses is passed over
RestoreModes(modes, changed_files, denied) ==
    IF changed_files = <<>> THEN modes
    ELSE LET file_info == Head(changed_files) IN
         RestoreModes(
            IF file_info.path \in denied THEN modes
            ELSE [modes EXCEPT ![file_info.path] = file_info.old_mode],
            Tail(changed_files), denied)

\* _rollback_step: the rollback_info it returns
RollbackInfo(step_result) ==
    [step |-> step_result.step, success |-> TRUE,
     message |-> IF step_result.step = CHANGE_PERMISSION
                    THEN "Restored file permissions"
                 ELSE IF step_result.step = ENCRYPT
                    THEN "Removed encrypted backup"
                 ELSE IF step_result.step = BACKUP
                    THEN "Backup preserved for reference"
                 ELSE "No rollback needed"]

\* the order in which _rollback visits the stack
Reversed(s) == [i \in 1..Len(s) |-> s[Len(s) + 1 - i]]

\* the files whose mode the rollback of a stack tries to restore
RestoreTargets(stack) ==
    UNION {{ChangedFiles(stack[k])[j].path :
               j \in 1..Len(ChangedFiles(stack[k]))} :
           k \in {k \in 1..Len(stack) : stack[k].step = CHANGE_PERMISSION}}

\* the sets of files on which the OS may refuse the restoring chmod
DenyChoices(stack) ==
    {d \in SUBSET RestoreTargets(stack) : Cardinality(d) <= MaxDenied}

\* variant of RollbackModes: every rollback leaves all files at 600
RollbackModesReset(modes, order, denied) ==
    [p \in DOMAIN modes |-> ParseOct(<<6, 0, 0>>)]

RECURSIVE RollbackModes(_, _, _)
\* the file modes after _rollback_step has run on each entry of order
RollbackModes(modes, order, denied) ==
    IF order = <<>> THEN modes
    ELSE RollbackModes(
            IF Head(order).step = CHANGE_PERMISSION
            THEN RestoreModes(modes, ChangedFiles(Head(order)), denied)
            ELSE modes,
            Tail(order), denied)

\* the encrypted artifacts _rollback_step removes (lines 584-587)
RemovedArtifacts(stack) ==
    {DictGet(stack[k].rollback_data, "encrypted_path", Nil) :
        k \in {k \in 1..Len(stack) : stack[k].step = ENCRYPT}}

\* the PipelineResult after the loop of _rollback (lines 557-561)
RolledBack(res, stack) ==
    [res EXCEPT
        !.rollback_results =
            @ \o [i \in 1..Len(stack) |-> RollbackInfo(Reversed(stack)[i])],
        !.rolled_back = TRUE]

\* _finalize_result (lines 605-615): the result it returns
FinalizeResult(res) == [res EXCEPT !.end_time = "now"]

\* _finalize_result: the summary event it writes
FinalizeLog(log, res) ==
    LogAuditEvent(log, "pipeline_execution", None,
                  IF res.success THEN "info" ELSE "warning")

\* What a step leaves behind for the rest of execute(): the file modes,
\* the audit log, the encrypted artifacts and the faults met so far.
World(modes, log, encs, faults) ==
    [modes |-> modes, log |-> log, encs |-> encs, faults |-> faults]

Here == World(fsMode, audit_logs, enc_files, env_faults)

\* _rollback(rollback_stack, result) followed by
\* return self._finalize_result(result), called with result res in world w.
\* The step callback is called first (line 555): when it raises, control
\* goes to onraise and nothing is undone.
RollbackAndReturn(res, w, onraise) ==
    \E raise \in MayRaise(step_callback) :
        IF raise
        THEN /\ pc' = onraise
             /\ result' = res
             /\ fsMode' = w.modes
             /\ audit_logs' = w.log
             /\ enc_files' = w.encs
             /\ env_faults' = w.faults \cup {CALLBACK_RAISED}
        ELSE \E denied \in DenyChoices(rollback_stack) :
             /\ pc' = "done"
             /\ result' = FinalizeResult(RolledBack(res, rollback_stack))
             /\ fsMode' = RollbackModes(w.modes, Reversed(rollback_stack),
                                        denied)
             /\ audit_logs' = FinalizeLog(w.log, res)
             /\ enc_files' = w.encs \ RemovedArtifacts(rollback_stack)
             /\ env_faults' = w.faults
                              \cup Fault(denied # {}, RESTORE_REFUSED)

\* the except block of execute() (lines 197-205): an exception raised by
\* the _rollback it calls leaves execute()
Except ==
    /\ pc = "except"
    /\ RollbackAndReturn(
          [result EXCEPT !.failed_step =
              <<StepResult(IF current_step # None THEN current_step
                           ELSE FAILED,
                           FALSE, EmptyDict, "Pipeline execution failed",
                           EmptyDict)>>],
          Here, "raised")
    /\ UNCHANGED <<config, custom_mode, fsContent, current_step, is_cancelled,
                   hashes_before, encrypted_files, rollback_stack, cp,
                   hashes_after, file_hashes, backups, corrupted>>

\* ------------------------------------------------------------- execute()
\* execute(), lines 112-122: reset the flag, create the result
ExecuteBegin ==
    /\ pc = "idle"
    /\ is_cancelled' = FALSE
    /\ result' = PipelineResult(N)
    /\ rollback_stack' = <<>>
    /\ pc' = "scan"
    /\ UNCHANGED <<config, custom_mode, fsMode, fsContent, current_step,
                   hashes_before, encrypted_files, cp, hashes_after,
                   audit_logs, file_hashes, backups, enc_files, corrupted,
                   env_faults>>

\* variant of AfterHashBefore: the Encrypt step is always run
AfterHashBeforeAlways == "encrypt"

\* the step that follows HashBefore in execute() (line 158)
AfterHashBefore ==
    IF enable_encryption /\ encryption_password # None
    THEN "encrypt" ELSE "change_permission"

\* a progress callback has raised out of a step into the except block
Raised ==
    /\ pc' = "except"
    /\ env_faults' = env_faults \cup {CALLBACK_RAISED}
    /\ UNCHANGED <<result, rollback_stack, fsMode, audit_logs, enc_files>>

\* execute() after a step other than Scan and HashAfter has returned sr in
\* world w (lines 137-145, 148-156, 160-168, 171-180): append it; on
\* failure or cancellation roll back and return, else push it and notify
AfterStep(sr, nextpc, w) ==
    IF ~sr.success \/ is_cancelled
    THEN /\ rollback_stack' = rollback_stack
         /\ RollbackAndReturn(
               [result EXCEPT !.completed_steps = Append(@, sr),
                              !.failed_step = <<sr>>],
               w, "except")
    ELSE /\ result' = [result EXCEPT
                !.completed_steps = Append(@, sr),
                !.files_processed =
                    IF sr.step = CHANGE_PERMISSION
                    THEN DictGet(sr.data, "success_count", 0)
                    ELSE @]
         /\ rollback_stack' = Append(rollback_stack, sr)
         /\ fsMode' = w.modes
         /\ audit_logs' = w.log
         /\ enc_files' = w.encs
         /\ \E raise \in MayRaise(step_callback) :
              /\ pc' = IF raise THEN "except" ELSE nextpc
              /\ env_faults' = w.faults \cup Fault(raise, CALLBACK_RAISED)

\* variant of ScanResult: Scan fails only when no path of the batch exists
ScanResultLenient ==
    LET missing_files == {i \in 1..N : ~Exists(files_data[i].path)} IN
    IF N > 0 /\ missing_files = 1..N
    THEN StepResult(SCAN, FALSE, EmptyDict, "Files not found", EmptyDict)
    ELSE StepResult(SCAN, TRUE, [valid_files |-> Paths], None, EmptyDict)

\* _step_scan's result (lines 212-240)
ScanResult ==
    LET missing_files == {i \in 1..N : ~Exists(files_data[i].path)} IN
    IF missing_files # {}
    THEN StepResult(SCAN, FALSE, EmptyDict, "Files not found", EmptyDict)
    ELSE StepResult(SCAN, TRUE, [valid_files |-> Paths], None, EmptyDict)

\* _step_scan and execute() lines 125-134
StepScan ==
    /\ pc = "scan"
    /\ current_step' = SCAN
    /\ \E raise \in MayRaise(progress_callback) :
         IF raise THEN Raised
         ELSE LET sr == ScanResult
                  res == [result EXCEPT !.completed_steps = Append(@, sr)]
              IN
              IF ~sr.success \/ is_cancelled
              THEN /\ result' = FinalizeResult(
                                   [res EXCEPT !.failed_step = <<sr>>])
                   /\ audit_logs' = FinalizeLog(
                          LogAuditEvent(audit_logs, "pipeline_step_scan",
                                        None, "error"), res)
                   /\ rollback_stack' = rollback_stack
                   /\ pc' = "done"
                   /\ UNCHANGED <<fsMode, enc_files, env_faults>>
              ELSE /\ result' = res
                   /\ rollback_stack' = Append(rollback_stack, sr)
                   /\ audit_logs' = audit_logs
                   /\ UNCHANGED <<fsMode, enc_files>>
                   /\ \E r2 \in MayRaise(step_callback) :
                        /\ pc' = IF r2 THEN "except" ELSE "backup"
                        /\ env_faults' = env_faults
                                         \cup Fault(r2, CALLBACK_RAISED)
    /\ UNCHANGED <<config, custom_mode, fsContent, is_cancelled,
                   hashes_before, encrypted_files, cp, hashes_after,
                   file_hashes, backups, corrupted>>

\* the backup_data list _step_backup builds (lines 248-263)
BackupData ==
    [i \in 1..N |->
        LET p == files_data[i].path
            current_mode_str == IF Exists(p)
                                THEN OctStr(PermBits(fsMode[p]))
                                ELSE <<"unknown">>
        IN [path |-> p,
            old_permission |-> current_mode_str,
            new_permission |-> IF files_data[i].expected # <<>>
                               THEN files_data[i].expected
                               ELSE current_mode_str]]

\* PermissionBackup.create_backup: the JSON artifact it writes
CreateBackup(data) ==
    [path |-> <<"backup", Len(backups) + 1>>,
     total_files |-> Len(data),
     files |-> [i \in 1..Len(data) |->
                  [filepath |-> data[i].path,
                   old_permission |-> data[i].old_permission,
                   new_permission |-> data[i].new_permission]]]

\* _step_backup and execute() lines 136-145; create_backup may raise
\* (io_ok = FALSE) and the progress callback may raise after it (raise100)
StepBackup ==
    /\ pc = "backup"
    /\ current_step' = BACKUP
    /\ \E raise \in MayRaise(progress_callback) :
         IF raise THEN Raised /\ backups' = backups
         ELSE \E io_ok \in BOOLEAN, raise100 \in MayRaise(progress_callback) :
              LET art == CreateBackup(BackupData)
                  failed == StepResult(BACKUP, FALSE, EmptyDict,
                                       "Backup creation failed", EmptyDict)
                  ok == StepResult(BACKUP, TRUE,
                            [backup_path |-> art.path,
                             backup_data |-> BackupData],
                            None, [backup_path |-> art.path])
              IN /\ (~io_ok => ~raise100)
                 /\ backups' = IF io_ok THEN Append(backups, art) ELSE backups
                 /\ AfterStep(IF io_ok /\ ~raise100 THEN ok ELSE failed,
                       "hash_before",
                       World(fsMode, audit_logs, enc_files,
                             env_faults \cup Fault(~io_ok, WRITE_FAILED)
                                 \cup Fault(raise100, CALLBACK_RAISED)))
    /\ UNCHANGED <<config, custom_mode, fsContent, is_cancelled,
                   hashes_before, encrypted_files, cp, hashes_after,
                   file_hashes, corrupted>>

\* the positions at which a loop over the batch can be cut short by a
\* raising progress callback: after record k (1..N), or 0 for never
Stops == {0} \cup (IF progress_callback THEN 1..N ELSE {})

\* the records a loop has handled when it is cut short at stop
Processed(stop) == IF stop = 0 THEN 1..N ELSE 1..stop

\* _step_hash_before and execute() lines 147-156; writing the hash file
\* may raise (io_ok = FALSE)
StepHashBefore ==
    /\ pc = "hash_before"
    /\ current_step' = HASH_BEFORE
    /\ \E raise \in MayRaise(progress_callback) :
         IF raise THEN Raised /\ UNCHANGED <<hashes_before, file_hashes>>
         ELSE \E stop \in Stops, io_ok \in BOOLEAN :
              LET hashed == {files_data[i].path : i \in
                               {i \in Processed(stop) :
                                  CalculateSha256(files_data[i].path) # Nil}}
                  hashes == [p \in hashed |-> CalculateSha256(p)]
                  failed == StepResult(HASH_BEFORE, FALSE, EmptyDict,
                                       "Hash calculation failed", EmptyDict)
                  ok == StepResult(HASH_BEFORE, TRUE,
                            [hashes |-> hashes, hash_file |-> "hashes_before"],
                            None, EmptyDict)
              IN /\ (stop # 0 => io_ok)
                 /\ hashes_before' =
                        [p \in DOMAIN hashes_before \cup hashed |->
                           IF p \in hashed THEN hashes[p]
                           ELSE hashes_before[p]]
                 /\ file_hashes' =
                        [p \in DOMAIN file_hashes \cup hashed |->
                           IF p \in hashed
                           THEN [hash_sha256 |-> hashes[p],
                                 permissions |-> OctStr(PermBits(fsMode[p]))]
                           ELSE file_hashes[p]]
                 /\ AfterStep(IF stop = 0 /\ io_ok THEN ok ELSE failed,
                       AfterHashBefore,
                       World(fsMode, audit_logs, enc_files,
                             env_faults \cup Fault(~io_ok, WRITE_FAILED)
                                 \cup Fault(stop # 0, CALLBACK_RAISED)))
    /\ UNCHANGED <<config, custom_mode, fsContent, is_cancelled,
                   encrypted_files, cp, hashes_after, backups, corrupted>>

\* _step_encrypt(backup_path) and execute() lines 158-168.  execute()
\* passes step_result.data.get('backup_path') where step_result is the
\* result of the step that has just run, HashBefore.
StepEncrypt ==
    /\ pc = "encrypt"
    /\ current_step' = ENCRYPT
    /\ \E raise \in MayRaise(progress_callback) :
         IF raise THEN Raised
         ELSE LET step_result ==
                      result.completed_steps[Len(result.completed_steps)]
                  backup_path == DictGet(step_result.data, "backup_path",
                                         Nil)
                  security_manager == enable_encryption
                  enc_path == <<backup_path, "enc">>
              IN
              IF ~security_manager \/ backup_path = Nil
              THEN AfterStep(StepResult(ENCRYPT, TRUE, [encrypted |-> FALSE],
                                        None, EmptyDict),
                             "change_permission", Here)
              ELSE \E ok \in BOOLEAN :
                   AfterStep(
                        IF ok
                        THEN StepResult(ENCRYPT, TRUE,
                                 [encrypted_path |-> enc_path,
                                  original_path |-> backup_path],
                                 None, [encrypted_path |-> enc_path])
                        ELSE StepResult(ENCRYPT, FALSE, EmptyDict,
                                 "Encryption failed", EmptyDict),
                        "change_permission",
                        World(fsMode, audit_logs,
                              IF ok THEN enc_files \cup {enc_path}
                              ELSE enc_files,
                              env_faults \cup Fault(~ok, WRITE_FAILED)))
    /\ UNCHANGED <<config, custom_mode, fsContent, is_cancelled,
                   hashes_before, encrypted_files, cp, hashes_after,
                   file_hashes, backups, corrupted>>

\* _step_change_permission up to its loop (lines 386-393)
ChangePermissionBegin ==
    /\ pc = "change_permission"
    /\ current_step' = CHANGE_PERMISSION
    /\ \E raise \in MayRaise(progress_callback) :
         IF raise THEN Raised /\ cp' = cp
         ELSE /\ pc' = "chmod_loop"
              /\ cp' = [i |-> 1, success_count |-> 0, failed_count |-> 0,
                        failed_files |-> <<>>, changed_files |-> <<>>]
              /\ UNCHANGED <<result, rollback_stack, fsMode, audit_logs,
                             enc_files, env_faults>>
    /\ UNCHANGED <<config, custom_mode, fsContent, is_cancelled,
                   hashes_before, encrypted_files, hashes_after, file_hashes,
                   backups, corrupted>>

\* variant of NewMode: the custom mode is ignored
NewModeNoCustom(file_info) ==
    IF file_info.expected # <<>> THEN ParseOct(file_info.expected)
    ELSE DetermineAppropriatePermission(fsMode[file_info.path])

\* the mode _step_change_permission requests for a record (lines 398-403)
NewMode(file_info) ==
    IF custom_mode # Nil THEN custom_mode[1]
    ELSE IF file_info.expected # <<>> THEN ParseOct(file_info.expected)
    ELSE DetermineAppropriatePermission(fsMode[file_info.path])

\* the locals of the loop after the iteration for record i, whose chmod
\* has raised (ok = FALSE) or has returned (ok = TRUE) (lines 405-429)
ChmodOutcome(i, ok) ==
    LET file_info == files_data[i]
        p == file_info.path
        new_mode == NewMode(file_info)
        current_mode == PermBits(fsMode[p])
        verify_mode == PermBits(new_mode)
    IN IF ok /\ verify_mode = new_mode
       THEN [cp EXCEPT !.i = @ + 1, !.success_count = @ + 1,
                       !.changed_files = Append(@,
                           [path |-> p, old_mode |-> current_mode,
                            new_mode |-> new_mode])]
       ELSE [cp EXCEPT !.i = @ + 1, !.failed_count = @ + 1,
                       !.failed_files = Append(@, p)]

\* one iteration of the loop of _step_change_permission (lines 395-432).
\* A progress callback that raises ends the step in its outer handler
\* (lines 457-463), and execute() goes on at line 171.
ChmodFile ==
    /\ pc = "chmod_loop"
    /\ cp.i <= N
    /\ LET file_info == files_data[cp.i]
           p == file_info.path
       IN IF ~Exists(p)
          THEN /\ cp' = [cp EXCEPT !.i = @ + 1, !.failed_count = @ + 1,
                                   !.failed_files = Append(@, p)]
               /\ UNCHANGED <<pc, result, rollback_stack, fsMode, audit_logs,
                              enc_files, env_faults>>
          ELSE \E ok \in BOOLEAN, raise \in MayRaise(progress_callback) :
               LET modes == IF ok
                            THEN [fsMode EXCEPT ![p] = NewMode(file_info)]
                            ELSE fsMode
               IN IF raise
                  THEN /\ cp' = Nil
                       /\ AfterStep(StepResult(CHANGE_PERMISSION, FALSE,
                              EmptyDict, "Permission change failed",
                              EmptyDict),
                              "hash_after",
                              World(modes, audit_logs, enc_files,
                                    env_faults \cup {CALLBACK_RAISED}
                                        \cup Fault(~ok, CHMOD_REFUSED)))
                  ELSE /\ cp' = ChmodOutcome(cp.i, ok)
                       /\ fsMode' = modes
                       /\ env_faults' = env_faults
                                        \cup Fault(~ok, CHMOD_REFUSED)
                       /\ UNCHANGED <<pc, result, rollback_stack, audit_logs,
                                      enc_files>>
    /\ UNCHANGED <<config, custom_mode, fsContent, current_step, is_cancelled,
                   hashes_before, encrypted_files, hashes_after, file_hashes,
                   backups, corrupted>>

\* variant of ChangePermissionResult: any failed file fails the step
ChangePermissionResultStrict ==
    IF cp.failed_count > 0
    THEN StepResult(CHANGE_PERMISSION, FALSE, EmptyDict, "Too many failures",
                    [changed_files |-> cp.changed_files])
    ELSE StepResult(CHANGE_PERMISSION, TRUE,
                    [success_count |-> cp.success_count,
                     failed_count |-> cp.failed_count,
                     changed_files |-> cp.changed_files],
                    None, [changed_files |-> cp.changed_files])

\* the result _step_change_permission returns after its loop (434-455)
ChangePermissionResult ==
    IF N > 0 /\ 2 * cp.failed_count > N
    THEN StepResult(CHANGE_PERMISSION, FALSE, EmptyDict, "Too many failures",
                    [changed_files |-> cp.changed_files])
    ELSE StepResult(CHANGE_PERMISSION, TRUE,
                    [success_count |-> cp.success_count,
                     failed_count |-> cp.failed_count,
                     changed_files |-> cp.changed_files],
                    None, [changed_files |-> cp.changed_files])

\* the end of _step_change_permission and execute() lines 171-180
ChangePermissionEnd ==
    /\ pc = "chmod_loop"
    /\ cp.i > N
    /\ cp' = Nil
    /\ AfterStep(ChangePermissionResult, "hash_after", Here)
    /\ UNCHANGED <<config, custom_mode, fsContent, current_step, is_cancelled,
                   hashes_before, encrypted_files, hashes_after, file_hashes,
                   backups, corrupted>>

\* variant of CorruptedFiles: no hash difference is classified
CorruptedFilesNone(examined) == {}

\* the files _step_hash_after classifies as corrupted among the records
\* it has examined (lines 483-498)
CorruptedFiles(examined) ==
    {i \in examined :
        LET filepath == files_data[i].path
            file_hash == CalculateSha256(filepath)
            hash_before == DictGet(hashes_before, filepath, Nil)
        IN /\ file_hash # Nil
           /\ hash_before # Nil
           /\ hash_before # file_hash
           /\ filepath \notin encrypted_files}

\* the records counted in integrity_failed without being corrupted
\* (lines 501-504)
UnreadableFiles(examined) ==
    {i \in examined :
        LET filepath == files_data[i].path
            file_hash == CalculateSha256(filepath)
            hash_before == DictGet(hashes_before, filepath, Nil)
        IN /\ file_hash # Nil
           /\ ~(hash_before # Nil /\ hash_before # file_hash)
           /\ ~Readable(filepath)}

RECURSIVE LogCorrupted(_, _, _)
\* the data_corruption_detected events of the loop, in batch order
LogCorrupted(log, bad, i) ==
    IF i > N THEN log
    ELSE LogCorrupted(
            IF i \in bad
            THEN LogAuditEvent(log, "data_corruption_detected",
                               files_data[i].path, "critical")
            ELSE log,
            bad, i + 1)

\* the hashes_after dict of _step_hash_after over the records examined
HashesAfter(examined) ==
    LET hashed == {files_data[i].path : i \in
                     {i \in examined :
                        CalculateSha256(files_data[i].path) # Nil}}
    IN [p \in hashed |-> CalculateSha256(p)]

\* the result _step_hash_after returns (lines 474-551)
HashAfterResult(stop, io_ok) ==
    LET examined == Processed(stop)
        corrupted_files == CorruptedFiles(examined)
        integrity_failed == Cardinality(corrupted_files)
                            + Cardinality(UnreadableFiles(examined))
    IN IF stop # 0 \/ ~io_ok
       THEN StepResult(HASH_AFTER, FALSE, EmptyDict,
                       "Integrity verification failed", EmptyDict)
       ELSE IF corrupted_files # {}
       THEN StepResult(HASH_AFTER, FALSE, EmptyDict,
                       "DATA CORRUPTION DETECTED", EmptyDict)
       ELSE IF integrity_failed > 0
       THEN StepResult(HASH_AFTER, FALSE, EmptyDict,
                       "Some files may have been corrupted", EmptyDict)
       ELSE StepResult(HASH_AFTER, TRUE,
                       [hashes |-> HashesAfter(examined),
                        hash_file |-> "hashes_after"],
                       None, EmptyDict)

\* _step_hash_after and execute() lines 182-195
StepHashAfter ==
    /\ pc = "hash_after"
    /\ current_step' = HASH_AFTER
    /\ \E raise \in MayRaise(progress_callback) :
         IF raise THEN Raised /\ hashes_after' = hashes_after
         ELSE \E stop \in Stops, io_ok \in BOOLEAN :
              LET sr == HashAfterResult(stop, io_ok)
                  log == LogCorrupted(audit_logs,
                                      CorruptedFiles(Processed(stop)), 1)
                  res == [result EXCEPT !.completed_steps = Append(@, sr)]
                  faults == env_faults \cup Fault(~io_ok, WRITE_FAILED)
                                \cup Fault(stop # 0, CALLBACK_RAISED)
              IN
              /\ (stop # 0 => io_ok)
              /\ hashes_after' = HashesAfter(Processed(stop))
              /\ rollback_stack' = rollback_stack
              /\ IF ~sr.success \/ is_cancelled
                 THEN RollbackAndReturn([res EXCEPT !.failed_step = <<sr>>],
                                        World(fsMode, log, enc_files, faults),
                                        "except")
                 ELSE \E r1 \in MayRaise(step_callback),
                         r2 \in MayRaise(step_callback) :
                      /\ (r1 => ~r2)
                      /\ result' = IF r1 THEN res
                                   ELSE IF r2 THEN [res EXCEPT !.success = TRUE]
                                   ELSE FinalizeResult(
                                           [res EXCEPT !.success = TRUE])
                      /\ audit_logs' = IF r1 \/ r2 THEN log
                                       ELSE FinalizeLog(log,
                                               [res EXCEPT !.success = TRUE])
                      /\ pc' = IF r1 \/ r2 THEN "except" ELSE "done"
                      /\ env_faults' = faults
                                       \cup Fault(r1 \/ r2, CALLBACK_RAISED)
                      /\ UNCHANGED <<fsMode, enc_files>>
    /\ UNCHANGED <<config, custom_mode, fsContent, is_cancelled,
                   hashes_before, encrypted_files, cp, file_hashes, backups,
                   corrupted>>


\* =========================================================== security.py
\* ------------------------------------------------------ the crypto engine
Passwords == {"w", "x"}
Salts == {"s"}

\* PBKDF2HMAC(...).derive: distinct (password, salt) give distinct keys
DeriveKey(password, salt) == <<"key", password, salt>>

\* Fernet(key).encrypt(data): an authenticated token
FernetEncrypt(key, data) == [key |-> key, plaintext |-> data, intact |-> TRUE]

\* a token whose bytes were altered after encryption
Altered(token) == [token EXCEPT !.intact = FALSE]

\* str(e) of the InvalidToken Fernet raises: it is raised without arguments
InvalidTokenMessage == <<>>

\* variant of FernetDecrypt: every token decrypts to the same plaintext
FernetDecryptFixed(key, token) == [ok |-> TRUE, data |-> "p"]

\* Fernet(key).decrypt(token): the plaintext, or InvalidToken when the
\* token does not authenticate under key
FernetDecrypt(key, token) ==
    IF token.intact /\ token.key = key
    THEN [ok |-> TRUE, data |-> token.plaintext]
    ELSE [ok |-> FALSE, error |-> InvalidTokenMessage]

\* _create_verification_hash: sha256(b"VERIFY:" + password + salt)
CreateVerificationHash(password, salt) == <<"VERIFY:", password, salt>>

\* variant of VerifyPassword: every password is accepted
VerifyPasswordAny(password, salt, stored_hash) == TRUE

\* _verify_password
VerifyPassword(password, salt, stored_hash) ==
    CreateVerificationHash(password, salt) = stored_hash

\* encrypt_data(data, password), with the salt os.urandom has drawn
EncryptData(data, password, salt) ==
    [data |-> FernetEncrypt(DeriveKey(password, salt), data),
     salt |-> salt,
     verification_hash |-> CreateVerificationHash(password, salt)]

\* the containers decrypt_data is called on
Containers ==
    {EncryptData("p", "w", salt) : salt \in Salts}
    \cup {EncryptData("q", "x", salt) : salt \in Salts}

\* the arguments of a decrypt_data call: a container, as written or with
\* altered ciphertext, with or without its verification hash, and a password
DecryptInputs ==
    {[encrypted_data |-> IF altered THEN Altered(e.data) ELSE e.data,
      password |-> password,
      salt |-> e.salt,
      verification_hash |-> IF tagged THEN e.verification_hash ELSE Nil] :
        e \in Containers, password \in Passwords,
        altered \in BOOLEAN, tagged \in BOOLEAN}

\* sub in s, for strings as sequences of characters
IsSubstring(sub, s) ==
    \E i \in 0..(Len(s) - Len(sub)) : SubSeq(s, i + 1, i + Len(sub)) = sub

\* the test of line 252 on error_str
LooksLikeWrongPassword(error_str) ==
    \/ IsSubstring(<<"i", "n", "v", "a", "l", "i", "d",
                     "t", "o", "k", "e", "n">>, error_str)
    \/ IsSubstring(<<"t", "o", "k", "e", "n">>, error_str)
    \/ IsSubstring(<<"d", "e", "c", "r", "y", "p", "t">>, error_str)

\* decrypt_data after the rate check (lines 227-257): how the call ends
DecryptOutcome(args) ==
    IF /\ args.verification_hash # Nil
       /\ ~VerifyPassword(args.password, args.salt, args.verification_hash)
    THEN [kind |-> "InvalidPassword", data |-> None, cipher_run |-> FALSE]
    ELSE LET decrypted == FernetDecrypt(DeriveKey(args.password, args.salt),
                                        args.encrypted_data)
         IN IF decrypted.ok
            THEN [kind |-> "data", data |-> decrypted.data,
                  cipher_run |-> TRUE]
            ELSE [kind |-> IF LooksLikeWrongPassword(decrypted.error)
                           THEN "InvalidPassword" ELSE "DecryptionError",
                  data |-> None, cipher_run |-> TRUE]

\* ------------------------------------------------------- the rate limiter
DECRYPT == "decrypt"

\* variant of CleanupOldAttempts: every attempt of the key is deleted
CleanupAllAttempts(rows, key) ==
    LET Kept(row) == row.key # key
    IN SelectSeq(rows, Kept)

\* the rows _cleanup_old_attempts leaves in the table
CleanupOldAttempts(rows, key) ==
    LET cutoff == now - window_seconds
        Kept(row) == ~(row.key = key /\ row.timestamp < cutoff)
    IN SelectSeq(rows, Kept)

\* the SELECT COUNT(*) of check_limit
CurrentAttempts(rows, key) ==
    LET cutoff == now - window_seconds
    IN Cardinality({i \in 1..Len(rows) :
                       rows[i].key = key /\ rows[i].timestamp >= cutoff})

\* the dict check_limit returns over the cleaned table
CheckLimit(rows, key) ==
    LET cutoff == now - window_seconds
        current_attempts == CurrentAttempts(rows, key)
        is_allowed == current_attempts < max_attempts
        stamps == {rows[i].timestamp : i \in
                     {i \in 1..Len(rows) :
                        rows[i].key = key /\ rows[i].timestamp >= cutoff}}
        oldest == CHOOSE t \in stamps : \A u \in stamps : t <= u
        wait_time == IF is_allowed \/ stamps = {} THEN 0
                     ELSE window_seconds - (now - oldest)
    IN [allowed |-> is_allowed,
        current_attempts |-> current_attempts,
        remaining |-> IF max_attempts > current_attempts
                      THEN max_attempts - current_attempts ELSE 0,
        wait_time |-> IF wait_time > 0 THEN wait_time ELSE 0]

\* the table after record_attempt(key, success)
RecordAttempt(rows, key, success) ==
    IF success
    THEN LET Other(row) == row.key # key IN SelectSeq(rows, Other)
    ELSE Append(rows, [key |-> key, timestamp |-> now])

\* decrypt_data, lines 220-225: the rate check.  The arguments are not
\* read before the check has passed.
DecryptBegin(c) ==
    /\ decrypt_calls[c].pc = "idle"
    /\ LET cleaned == CleanupOldAttempts(rate_limit_attempts, DECRYPT)
           rate_check == CheckLimit(cleaned, DECRYPT)
       IN /\ rate_limit_attempts' = cleaned
          /\ IF ~rate_check.allowed
             THEN /\ \E args \in DecryptInputs :
                       last_return' = [kind |-> "RateLimited",
                                       data |-> None,
                                       cipher_run |-> FALSE,
                                       caller |-> c,
                                       args |-> args,
                                       fresh |-> limiter_fresh]
                  /\ decrypt_calls' = decrypt_calls
             ELSE /\ decrypt_calls' =
                        [decrypt_calls EXCEPT ![c] = [pc |-> "checked"]]
                  /\ last_return' = last_return
    /\ limiter_fresh' = FALSE
    /\ UNCHANGED <<now, beyond_security>>

\* decrypt_data, lines 227-257: verification, cipher, record_attempt
DecryptEnd(c) ==
    /\ decrypt_calls[c].pc = "checked"
    /\ \E args \in DecryptInputs :
         LET outcome == DecryptOutcome(args) IN
         /\ rate_limit_attempts' =
                RecordAttempt(rate_limit_attempts, DECRYPT,
                              outcome.kind = "data")
         /\ last_return' = [kind |-> outcome.kind,
                            data |-> outcome.data,
                            cipher_run |-> outcome.cipher_run,
                            caller |-> c,
                            args |-> args,
                            fresh |-> FALSE]
    /\ decrypt_calls' = [decrypt_calls EXCEPT ![c] = NoCall]
    /\ UNCHANGED <<now, limiter_fresh, beyond_security>>

\* one second passes
Tick ==
    /\ now < MaxTime
    /\ now' = now + 1
    /\ UNCHANGED <<rate_limit_attempts, decrypt_calls, last_return,
                   limiter_fresh, beyond_security>>

\* variant of Restart: the attempts are kept in process memory
RestartInMemory ==
    /\ ~limiter_fresh
    /\ limiter_fresh' = TRUE
    /\ decrypt_calls' = [c \in Callers |-> NoCall]
    /\ rate_limit_attempts' = <<>>
    /\ UNCHANGED <<now, last_return, beyond_security>>

\* the process ends and a new one constructs SecurityManager: RateLimiter
\* __init__ and _init_table (lines 45-72) over the same database file
Restart ==
    /\ ~limiter_fresh
    /\ limiter_fresh' = TRUE
    /\ decrypt_calls' = [c \in Callers |-> NoCall]
    /\ UNCHANGED <<rate_limit_attempts, now, last_return, beyond_security>>

\* ------------------------------------------------------------- properties
IsPrefix(s, t) == Len(s) <= Len(t) /\ SubSeq(t, 1, Len(s)) = s

\* the steps of the results recorded so far, in order
StepNames ==
    [i \in 1..Len(result.completed_steps) |-> result.completed_steps[i].step]

LastStep == result.completed_steps[Len(result.completed_steps)]

FullOrder ==
    <<SCAN, BACKUP, HASH_BEFORE, ENCRYPT, CHANGE_PERMISSION, HASH_AFTER>>

OrderWithoutEncrypt ==
    <<SCAN, BACKUP, HASH_BEFORE, CHANGE_PERMISSION, HASH_AFTER>>

\* the execute() call has ended, by returning or by raising
Ended == pc \in {"done", "raised"}

C1_Recorded ==
    pc # "idle" =>
      /\ IsPrefix(StepNames, FullOrder)
         \/ IsPrefix(StepNames, OrderWithoutEncrypt)
      /\ ~enable_encryption => \A i \in 1..Len(StepNames) :
                                   StepNames[i] # ENCRYPT
      /\ \A i \in 1..(Len(StepNames) - 1) : result.completed_steps[i].success
      /\ pc = "scan" => StepNames = <<>>
      /\ pc = "backup" => LastStep.step = SCAN /\ LastStep.success
      /\ pc = "hash_before" => LastStep.step = BACKUP /\ LastStep.success
      /\ pc = "encrypt" => LastStep.step = HASH_BEFORE /\ LastStep.success
      /\ pc \in {"change_permission", "chmod_loop"} =>
            LastStep.step \in {HASH_BEFORE, ENCRYPT} /\ LastStep.success
      /\ pc = "hash_after" =>
            LastStep.step = CHANGE_PERMISSION /\ LastStep.success

C1_StepStart ==
    (pc' # pc /\ pc' \in {"backup", "hash_before", "encrypt",
                          "change_permission", "hash_after"}) =>
      /\ ~is_cancelled
      /\ Len(result'.completed_steps) = Len(result.completed_steps) + 1
      /\ result'.completed_steps[Len(result'.completed_steps)].success

\* C1: the results in completed_steps are always a prefix of Scan, Backup,
\* HashBefore, Encrypt (only with encryption enabled), ChangePermission,
\* HashAfter, one per executed step, every one but the last successful; and
\* a step is started only when the step before it has returned a successful
\* result and no cancellation is pending.
C1_StepOrder == [](C1_Recorded) /\ [][C1_StepStart]_vars

\* a run through all six steps that ended in success
C1_Witness ==
    /\ pc = "done"
    /\ result.success
    /\ StepNames = FullOrder

\* HashAfter has returned the result that reports corrupted files
HashAfterDetected ==
    /\ pc # "idle"
    /\ StepNames # <<>>
    /\ LastStep.step = HASH_AFTER
    /\ LastStep.error = "DATA CORRUPTION DETECTED"

\* C2: when HashAfter has detected a changed hash, execute() returns with
\* rolled_back true and every file back at the mode it had before the run
\* (provided the OS refuses no restoring chmod).
C2_RollbackRestores ==
    (Ended /\ HashAfterDetected /\ RESTORE_REFUSED \notin env_faults) =>
        /\ pc = "done"
        /\ result.rolled_back
        /\ fsMode = orig_mode

\* a step result that carries side effects to undo
ReversibleEffects(sr) ==
    \/ ChangedFiles(sr) # <<>>
    \/ "encrypted_path" \in DOMAIN sr.rollback_data

\* C3: when a run has been rolled back, the rollback handler has been
\* invoked for every recorded step that carries reversible side effects,
\* whether it ended successful, failed or cancelled, so that every file
\* ChangePermission changed is back at its old mode (provided the OS
\* refuses no restoring chmod).
C3_RollbackCovers ==
    (pc = "done" /\ result.rolled_back) =>
        /\ \A i \in 1..Len(result.completed_steps) :
              ReversibleEffects(result.completed_steps[i]) =>
                 \E j \in 1..Len(result.rollback_results) :
                    result.rollback_results[j].step = StepNames[i]
        /\ RESTORE_REFUSED \notin env_faults => fsMode = orig_mode

\* the steps named by rollback_results, in order
RollbackNames ==
    [j \in 1..Len(result.rollback_results) |-> result.rollback_results[j].step]

\* the run has stopped at a step that returned unsuccessful or cancelled
StoppedAtStep ==
    /\ pc # "idle"
    /\ StepNames # <<>>
    /\ ~LastStep.success \/ result.failed_step = <<LastStep>>

\* C4: when a step has ended unsuccessful or cancelled, execute() returns
\* with rollback_results holding one entry per step completed before it,
\* the last completed first.
C4_RollbackOrder ==
    (Ended /\ StoppedAtStep) =>
        /\ pc = "done"
        /\ RollbackNames =
              Reversed(SubSeq(StepNames, 1, Len(StepNames) - 1))

\* C5: once the cancellation flag is set, the ChangePermission loop
\* changes the mode of no further file.
C5_CancelStopsFiles ==
    [][(is_cancelled /\ pc = "chmod_loop" /\ pc' = "chmod_loop")
          => fsMode' = fsMode]_vars

\* the file was hashed in both hash steps and the two digests differ
HashDiffers(p) ==
    /\ p \in DOMAIN hashes_before
    /\ p \in DOMAIN hashes_after
    /\ hashes_before[p] # hashes_after[p]

\* C6: success is true only if every file hashed in both steps has equal
\* digests; a difference on a file not separately encrypted comes with a
\* failed HashAfter result, a critical data_corruption_detected audit event
\* for that file, no further step, and a rolled-back result when execute()
\* returns.
C6_HashIntegrity ==
    pc # "idle" =>
      /\ result.success => \A p \in Paths : ~HashDiffers(p)
      /\ \A p \in Paths :
            (HashDiffers(p) /\ p \notin encrypted_files) =>
               /\ LastStep.step = HASH_AFTER
               /\ ~LastStep.success
               /\ \E k \in 1..Len(audit_logs) :
                     /\ audit_logs[k].action_type = "data_corruption_detected"
                     /\ audit_logs[k].file_path = p
                     /\ audit_logs[k].severity = "critical"
               /\ ~result.success
               /\ pc \in {"except", "done", "raised"}
               /\ pc = "done" => result.rolled_back

\* a rewritten file was detected and the run was rolled back
C6_Witness ==
    /\ pc = "done"
    /\ \E p \in Paths : HashDiffers(p)
    /\ result.rolled_back

\* C7: no exception leaves execute().
C7_NeverRaises == pc # "raised"

\* the pipeline_execution events in the audit log
ExecutionEvents ==
    {k \in 1..Len(audit_logs) :
        audit_logs[k].action_type = "pipeline_execution"}

\* C8: whenever an execute() call has ended, end_time is set and exactly
\* one pipeline_execution event has been written.
C8_FinalizedOnce ==
    Ended => /\ result.end_time # None
             /\ Cardinality(ExecutionEvents) = 1

AnyMissing == \E i \in 1..N : ~Exists(files_data[i].path)

\* C9: the Scan result is successful iff every path of the batch exists;
\* with a path missing no later step ever runs and nothing is written or
\* changed, and once Scan has returned, execute() has returned success
\* false with completed_steps holding the Scan result only.
C9_ScanAllOrNothing ==
    pc # "idle" =>
      /\ StepNames # <<>> =>
            /\ result.completed_steps[1].step = SCAN
            /\ result.completed_steps[1].success <=> ~AnyMissing
      /\ AnyMissing =>
            /\ Len(StepNames) <= 1
            /\ pc \in {"scan", "except", "done", "raised"}
            /\ ~result.success
            /\ backups = <<>>
            /\ hashes_before = EmptyDict
            /\ fsMode = orig_mode
      /\ (AnyMissing /\ StepNames # <<>>) =>
            /\ pc = "done"
            /\ result.end_time # None
            /\ result.failed_step = <<result.completed_steps[1]>>

\* a batch with a missing path, whose run has returned
C9_Witness ==
    /\ pc = "done"
    /\ AnyMissing
    /\ StepNames = <<SCAN>>

\* the scenario: every file exists at 777, custom mode 644, encryption
\* disabled; no cancellation, no fault of the environment, no rewritten file
C10_Scenario ==
    /\ \A i \in 1..N : /\ files_data[i].path \in DOMAIN orig_mode
                       /\ orig_mode[files_data[i].path] = ParseOct(<<7, 7, 7>>)
    /\ custom_mode = <<ParseOct(<<6, 4, 4>>)>>
    /\ ~enable_encryption
    /\ ~is_cancelled
    /\ env_faults = {}
    /\ corrupted = {}

\* C10: in the scenario, execute() returns success with files_processed = N,
\* every file at 644, and one backup listing N entries, each with old
\* permission "777".
C10_Fix777 ==
    (pc = "done" /\ C10_Scenario) =>
        /\ result.success
        /\ result.files_processed = N
        /\ \A i \in 1..N : fsMode[files_data[i].path] = ParseOct(<<6, 4, 4>>)
        /\ Len(backups) = 1
        /\ backups[1].total_files = N
        /\ Len(backups[1].files) = N
        /\ \A i \in 1..N :
              /\ backups[1].files[i].filepath = files_data[i].path
              /\ backups[1].files[i].old_permission = <<7, 7, 7>>

\* the scenario on a batch of two files, run to its end
C10_Witness ==
    /\ pc = "done"
    /\ C10_Scenario
    /\ N = 2


\* the steps of execute() that come before ChangePermission
EarlySteps == {SCAN, BACKUP, HASH_BEFORE, ENCRYPT}

\* execute() has failed at one of the early steps
FailedEarly ==
    /\ pc # "idle"
    /\ result.failed_step # Nil
    /\ result.failed_step[1].step \in EarlySteps

C23_Unchanged ==
    FailedEarly =>
        /\ fsMode = orig_mode
        /\ \A i \in 1..Len(result.completed_steps) :
              /\ StepNames[i] # CHANGE_PERMISSION
              /\ ChangedFiles(result.completed_steps[i]) = <<>>
        /\ \A j \in 1..Len(result.rollback_results) :
              RollbackNames[j] # CHANGE_PERMISSION

C23_EarlyStep == current_step' \in EarlySteps => fsMode' = fsMode

\* C23: when execute() fails at Scan, Backup, HashBefore or Encrypt, every
\* file mode equals its value before the run, no mode changes while one of
\* these steps is the current step, and the rollback has no changed file
\* to restore.
C23_EarlyFailureKeepsModes == [](C23_Unchanged) /\ [][C23_EarlyStep]_vars

\* a run on two files that failed at HashBefore and was rolled back
C23_Witness ==
    /\ pc = "done"
    /\ FailedEarly
    /\ result.failed_step[1].step = HASH_BEFORE
    /\ result.rolled_back
    /\ N = 2


\* a transition on which _step_change_permission returns its result
ChangePermissionReturns ==
    /\ pc = "chmod_loop"
    /\ Len(result'.completed_steps) = Len(result.completed_steps) + 1

\* the ChangePermission result that transition records
NewStep == result'.completed_steps[Len(result'.completed_steps)]

\* the most files that can have failed when the step returns: the count of
\* the loop, plus the file in hand when the loop was left early
FailedAtMost == cp.failed_count + (IF cp.i <= N THEN 1 ELSE 0)

\* C24 as stated: the ChangePermission result is failed exactly when more
\* than half of the batch's files failed; a successful step, with no
\* cancellation pending, sets files_processed to the number of files
\* changed and verified.
C24_FailedIffMajority ==
    [][ChangePermissionReturns =>
          /\ ~NewStep.success => 2 * FailedAtMost > N
          /\ 2 * cp.failed_count > N => ~NewStep.success
          /\ (NewStep.success /\ ~is_cancelled) =>
                 result'.files_processed = cp.success_count]_vars

\* C24: when the loop of ChangePermission has run to its end, the result is
\* failed exactly when more than half of the batch's files failed, so that
\* exactly half, fewer, and an empty batch succeed; when the loop is left by
\* an exception the result is failed whatever the count; a successful step,
\* with no cancellation pending, sets files_processed to the number of
\* files changed and verified, each of which is at its requested mode.
C24_Threshold ==
    [][ChangePermissionReturns =>
          /\ cp.i > N => (~NewStep.success <=> 2 * cp.failed_count > N)
          /\ cp.i <= N => ~NewStep.success
          /\ N = 0 => NewStep.success
          /\ (NewStep.success /\ ~is_cancelled) =>
                 /\ result'.files_processed = cp.success_count
                 /\ cp.success_count = Len(cp.changed_files)
                 /\ cp.success_count + cp.failed_count = N
                 /\ \A k \in 1..Len(cp.changed_files) :
                       fsMode'[cp.changed_files[k].path]
                          = cp.changed_files[k].new_mode]_vars

\* ChangePermission has succeeded on a batch of two with one file failed
C24_Witness ==
    /\ pc = "hash_after"
    /\ N = 2
    /\ LastStep.step = CHANGE_PERMISSION
    /\ LastStep.success
    /\ LastStep.data.failed_count = 1
    /\ result.files_processed = 1


\* C25: when HashAfter returns a successful result, every file hashed in
\* HashBefore could be read and hashed again: a file that has become
\* unreadable is counted as an integrity failure and fails the step.
C25_UnreadableFails ==
    (pc # "idle" /\ StepNames # <<>> /\ LastStep.step = HASH_AFTER
        /\ LastStep.success) =>
       \A p \in DOMAIN hashes_before : p \in DOMAIN hashes_after


\* C26: a successful Encrypt step has encrypted the backup artifact of the
\* Backup step of the same run: its result names that backup and the
\* encrypted artifact, and the artifact exists until a rollback deletes it.
C26_EncryptsBackup ==
    pc # "idle" =>
       \A i \in 1..Len(result.completed_steps) :
          LET sr == result.completed_steps[i] IN
          (sr.step = ENCRYPT /\ sr.success) =>
             /\ "encrypted_path" \in DOMAIN sr.data
             /\ \E k \in 1..(i - 1) :
                   /\ StepNames[k] = BACKUP
                   /\ sr.data.original_path
                         = result.completed_steps[k].data.backup_path
             /\ ~result.rolled_back => sr.data.encrypted_path \in enc_files


\* C27: a rollback visits every step of the stack whatever happens while
\* undoing one of them, and a restoring chmod that the OS refuses is
\* recorded in the rollback outcome of the ChangePermission step, which is
\* then not reported as successful.
C27_UndoFailuresRecorded ==
    (pc = "done" /\ result.rolled_back) =>
        /\ RollbackNames =
              Reversed([k \in 1..Len(rollback_stack) |->
                           rollback_stack[k].step])
        /\ RESTORE_REFUSED \in env_faults =>
              \E j \in 1..Len(result.rollback_results) :
                 /\ result.rollback_results[j].step = CHANGE_PERMISSION
                 /\ ~result.rollback_results[j].success


\* C34: in every PipelineResult execute() returns, success true comes with
\* no failed_step, rolled_back false and no rollback_results, and success
\* false comes with a failed_step.
C34_ResultConsistent ==
    pc = "done" =>
        /\ result.success =>
              /\ result.failed_step = Nil
              /\ ~result.rolled_back
              /\ result.rollback_results = <<>>
        /\ ~result.success => result.failed_step # Nil


\* ------------------------------ execute() called again on one instance
\* Between two execute() calls the owner of a file rewrites it, and may
\* take away or give back the read permission.
OwnerEdits ==
    /\ pc = "idle"
    /\ run_no > 1
    /\ \E p \in DOMAIN fsMode : \E mode \in {fsMode[p], 0} :
          /\ fsContent[p] # <<p, run_no>>
          /\ fsContent' = [fsContent EXCEPT ![p] = <<p, run_no>>]
          /\ fsMode' = [fsMode EXCEPT ![p] = mode]
          /\ orig_mode' = fsMode'
    /\ UNCHANGED <<files_data, custom_mode, enable_encryption,
                   encryption_password, progress_callback, step_callback,
                   pc, current_step, is_cancelled, hashes_before,
                   encrypted_files, result, rollback_stack, cp, hashes_after,
                   audit_logs, file_hashes, backups, enc_files, corrupted,
                   env_faults, outside>>

\* the custom_mode a later call may pass: also one with the setuid bit
LaterModes == CustomModes \cup {<<ParseOct(<<4, 7, 5, 5>>)>>}

\* execute() has returned and the caller is about to call it again with
\* the same batch and a custom_mode of its choice: the attributes of the
\* instance set by __init__ (lines 76-80) are kept; the histories start
\* afresh
ExecuteAgain ==
    /\ pc = "done"
    /\ run_no < MaxRuns
    /\ pc' = "idle"
    /\ custom_mode' \in LaterModes
    /\ run_no' = run_no + 1
    /\ orig_mode' = fsMode
    /\ corrupted' = {}
    /\ env_faults' = {}
    /\ UNCHANGED <<files_data, enable_encryption,
                   encryption_password, progress_callback, step_callback,
                   fsMode, fsContent, current_step, is_cancelled,
                   hashes_before, encrypted_files, result, rollback_stack,
                   cp, hashes_after, audit_logs, file_hashes, backups,
                   enc_files, beyond_rerun>>

\* C35: when HashAfter reports corrupted files, the content of a file of
\* the batch was rewritten during this run, between its HashBefore and its
\* HashAfter: what an earlier run hashed decides nothing.
C35_PerRunHashes == HashAfterDetected => corrupted # {}

\* C36: when ChangePermission returns, every file whose mode differs from
\* the one it had before the step is listed in the changed_files of the
\* step's rollback data with that earlier mode, so that a file counted as
\* failed has kept its mode.
C36_ChangesRecorded ==
    [][ChangePermissionReturns =>
          \A p \in DOMAIN fsMode' :
             fsMode'[p] # orig_mode[p] =>
                \E k \in 1..Len(ChangedFiles(NewStep)) :
                   /\ ChangedFiles(NewStep)[k].path = p
                   /\ ChangedFiles(NewStep)[k].old_mode = orig_mode[p]]_vars


\* ------------------------------------------- properties of security.py
\* the failed attempts check_limit would count for the key "decrypt"
Counter == CurrentAttempts(rate_limit_attempts, DECRYPT)

Locked == Counter >= max_attempts

\* the callers between their rate check and their record_attempt
InFlight == {c \in Callers : decrypt_calls[c].pc = "checked"}

\* this step is the end of a decrypt_data call that had passed its rate
\* check; last_return' then describes that call
EndStep ==
    \E c \in Callers : /\ decrypt_calls[c].pc = "checked"
                       /\ decrypt_calls'[c].pc = "idle"
                       /\ ~limiter_fresh'

\* one failed attempt is recorded by this step
OneFailureRecorded ==
    rate_limit_attempts' =
        Append(rate_limit_attempts, [key |-> DECRYPT, timestamp |-> now])

\* the password the container was encrypted with
EncryptionPassword(args) == args.encrypted_data.key[2]

C12_WindowCap ==
    /\ [](Counter <= max_attempts)
    /\ [][(EndStep /\ last_return'.kind = "data") =>
            \A i \in 1..Len(rate_limit_attempts') :
               rate_limit_attempts'[i].key # DECRYPT]_vars

\* C13: check and record are serialized: the calls that have been told
\* "allowed" and have not recorded yet never outnumber the failures the
\* key may still take.
C13_Serialized == Counter + Cardinality(InFlight) <= max_attempts

CipherRefused(args) ==
    /\ \/ args.verification_hash = Nil
       \/ VerifyPassword(args.password, args.salt, args.verification_hash)
    /\ ~FernetDecrypt(DeriveKey(args.password, args.salt),
                      args.encrypted_data).ok

\* C16: when the tag check is absent or passes and the cipher's
\* authentication fails, the call ends with InvalidPassword and records one
\* failed attempt.
C16_CipherFailureNormalized ==
    [][(EndStep /\ CipherRefused(last_return'.args))
          => /\ last_return'.kind = "InvalidPassword"
             /\ OneFailureRecorded]_vars

\* the call is decrypt(encrypt(data, password).ciphertext, password, salt,
\* tag)
IsRoundTrip(args, data, password) ==
    \E salt \in Salts :
       LET e == EncryptData(data, password, salt)
       IN args = [encrypted_data |-> e.data, password |-> password,
                  salt |-> e.salt, verification_hash |-> e.verification_hash]

Next ==
    \/ Cancel
    \/ Corrupt
    \/ ExecuteBegin
    \/ StepScan
    \/ StepBackup
    \/ StepHashBefore
    \/ StepEncrypt
    \/ ChangePermissionBegin
    \/ ChmodFile
    \/ ChangePermissionEnd
    \/ StepHashAfter
    \/ Except

Spec == Init /\ [][Next]_vars

\* ------------------------------------------------------ the audit ledger
\* A TEXT column holds NULL or a string; strings are sequences of tokens.
Null == [null |-> TRUE, text |-> <<>>]
Text(s) == [null |-> FALSE, text |-> s]

\* how an f-string renders a column value: None becomes the text "None"
Str(v) == IF v.null THEN <<"None">> ELSE v.text

\* event_data of log_audit_event and of verify_audit_log_integrity
EventData(action_type, file_path, details, user) ==
    Str(action_type) \o <<"|">> \o Str(file_path) \o <<"|">>
        \o Str(details) \o <<"|">> \o Str(user)

\* calculate_checksum: the first 16 hex digits of the SHA-256, taken to be
\* free of collisions
CalculateChecksum(data) == <<"#">> \o data

\* _get_current_user
GetCurrentUser == Text(<<"u">>)

\* CURRENT_TIMESTAMP as <<year, month, day, hour>>, and the date literal of
\* verify_audit_log_integrity; both are compared as strings
ClockValues ==
    << <<2025, 12, 14, 23>>, <<2025, 12, 15, 0>>, <<2025, 12, 16, 0>> >>
Cutover == <<2025, 12, 15>>

\* s < t for strings
LexLess(s, t) ==
    \E k \in 0..Len(s) :
       /\ k <= Len(t)
       /\ SubSeq(s, 1, k) = SubSeq(t, 1, k)
       /\ IF k = Len(s) THEN Len(t) > k
          ELSE k < Len(t) /\ s[k + 1] < t[k + 1]

\* variant of InsertAuditLog: the table holds the latest event only
InsertAuditLogReplacing(rows, action_type, file_path, details, severity) ==
    LET user == GetCurrentUser
        checksum ==
            CalculateChecksum(EventData(action_type, file_path, details, user))
    IN << [timestamp |-> ClockValues[ledger_clock],
           action_type |-> action_type, user |-> user,
           file_path |-> file_path, details |-> details,
           severity |-> severity, checksum |-> Text(checksum)] >>

\* the table after the INSERT of log_audit_event
InsertAuditLog(rows, action_type, file_path, details, severity) ==
    LET user == GetCurrentUser
        checksum ==
            CalculateChecksum(EventData(action_type, file_path, details, user))
    IN Append(rows, [timestamp |-> ClockValues[ledger_clock],
                     action_type |-> action_type, user |-> user,
                     file_path |-> file_path, details |-> details,
                     severity |-> severity, checksum |-> Text(checksum)])

\* get_audit_logs(limit): the ids of the limit rows with the latest
\* timestamps (all of them while the table holds no more than limit)
AuditLimit == 500
GetAuditLogs(rows, limit) ==
    IF Len(rows) <= limit THEN 1..Len(rows)
    ELSE CHOOSE S \in SUBSET (1..Len(rows)) :
            /\ Cardinality(S) = limit
            /\ \A i \in S, j \in (1..Len(rows)) \ S :
                  ~LexLess(rows[i].timestamp, rows[j].timestamp)

\* variant of EntryStatus: every checksum mismatch is taken for old format
EntryStatusLenient(log) ==
    IF log.checksum.null \/ log.checksum.text = <<>> THEN "legacy"
    ELSE IF log.checksum.text =
              CalculateChecksum(EventData(log.action_type, log.file_path,
                                          log.details, log.user))
    THEN "valid"
    ELSE "legacy"

\* the class verify_audit_log_integrity puts one row in
EntryStatus(log) ==
    IF log.checksum.null \/ log.checksum.text = <<>> THEN "legacy"
    ELSE IF log.checksum.text =
              CalculateChecksum(EventData(log.action_type, log.file_path,
                                          log.details, log.user))
    THEN "valid"
    ELSE IF log.timestamp # <<>> /\ LexLess(log.timestamp, Cutover)
    THEN "legacy"
    ELSE "tampered"

\* the dict verify_audit_log_integrity returns
VerifyAuditLogIntegrity(rows) ==
    LET logs == GetAuditLogs(rows, AuditLimit)
        Count(status) ==
            Cardinality({i \in logs : EntryStatus(rows[i]) = status})
    IN [kind |-> "report",
        total_logs |-> Cardinality(logs),
        valid |-> Count("valid"),
        tampered |-> Count("tampered"),
        legacy |-> Count("legacy"),
        integrity_valid |-> Count("tampered") = 0]

\* the arguments log_audit_event is called with
ActionTypes == {Text(<<"a">>)}
FilePaths == {Null, Text(<<"f">>)}
Details == {Null, Text(<<"d">>)}
Severities == {Text(<<"info">>)}

\* rows left by earlier versions of the program: one with an old-format
\* checksum, one without a checksum
LegacyRows ==
    { [timestamp |-> ClockValues[1], action_type |-> Text(<<"a">>),
       user |-> GetCurrentUser, file_path |-> Text(<<"f">>),
       details |-> Null, severity |-> Text(<<"info">>), checksum |-> c] :
      c \in {Text(<<"old">>), Null} }

\* log_audit_event
LogEvent ==
    /\ Len(audit_rows) < MaxEntries
    /\ \E action_type \in ActionTypes, file_path \in FilePaths,
          details \in Details, severity \in Severities :
          audit_rows' = InsertAuditLog(audit_rows, action_type, file_path,
                                       details, severity)
    /\ written' = written \cup {Len(audit_rows')}
    /\ UNCHANGED <<ledger_clock, tamper, integrity_report, beyond_ledger>>

\* verify_audit_log_integrity
Verify ==
    /\ integrity_report' = VerifyAuditLogIntegrity(audit_rows)
    /\ UNCHANGED <<audit_rows, ledger_clock, tamper, written, beyond_ledger>>

\* time passes
ClockTick ==
    /\ ledger_clock < Len(ClockValues)
    /\ ledger_clock' = ledger_clock + 1
    /\ UNCHANGED <<audit_rows, tamper, integrity_report, written,
                   beyond_ledger>>

\* the values somebody with access to the database file may write into
\* one column
TamperValues(field) ==
    CASE field = "timestamp" ->
            {ClockValues[k] : k \in 1..Len(ClockValues)} \cup {<<>>}
      [] field = "action_type" -> {Text(<<"a">>), Text(<<"b">>)}
      [] field = "user" -> {Null, Text(<<"u">>), Text(<<"v">>)}
      [] field = "file_path" ->
            {Null, Text(<<"None">>), Text(<<"f">>), Text(<<"g">>)}
      [] field = "details" -> {Null, Text(<<"None">>), Text(<<"d">>)}
      [] field = "severity" -> {Text(<<"info">>), Text(<<"critical">>)}
      [] field = "checksum" ->
            {Null, Text(<<>>), Text(<<"#", "x">>)}
               \cup {audit_rows[i].checksum : i \in 1..Len(audit_rows)}

Fields == {"timestamp", "action_type", "user", "file_path", "details",
           "severity", "checksum"}

\* one column of one row is changed from outside the program, once
Tamper ==
    /\ tamper = NoTamper
    /\ \E i \in 1..Len(audit_rows), field \in Fields :
          \E v \in TamperValues(field) :
             /\ v # audit_rows[i][field]
             /\ audit_rows' =
                   [audit_rows EXCEPT ![i] = [@ EXCEPT ![field] = v]]
             /\ tamper' = [pc |-> "done", index |-> i, field |-> field]
    /\ UNCHANGED <<ledger_clock, integrity_report, written, beyond_ledger>>

\* --------------------------------------------- properties of the ledger
TamperStep == tamper = NoTamper /\ tamper' # NoTamper

PostCutover(log) ==
    log.timestamp # <<>> /\ ~LexLess(log.timestamp, Cutover)

\* the entry carries no checksum, or predates the cutover with a checksum
\* that does not match
Legacy(log) ==
    \/ log.checksum.null
    \/ log.checksum.text = <<>>
    \/ /\ log.timestamp # <<>>
       /\ LexLess(log.timestamp, Cutover)
       /\ log.checksum.text #
             CalculateChecksum(EventData(log.action_type, log.file_path,
                                         log.details, log.user))

\* the edit is one verify_audit_log_integrity can see: a column under the
\* checksum now renders differently, or the checksum is another one
Detectable(field, old, new) ==
    \/ /\ field \in {"action_type", "user", "file_path", "details"}
       /\ Str(new[field]) # Str(old[field])
    \/ /\ field = "checksum"
       /\ ~new.checksum.null
       /\ new.checksum.text # <<>>

\* the effect on the report of the edit this step makes to a verifying
\* post-cutover entry
TamperEffect(P(_, _, _), Q(_, _)) ==
    TamperStep =>
       LET i == tamper'.index
           before == VerifyAuditLogIntegrity(audit_rows)
           after == VerifyAuditLogIntegrity(audit_rows')
       IN (/\ EntryStatus(audit_rows[i]) = "valid"
           /\ PostCutover(audit_rows[i])
           /\ P(tamper'.field, audit_rows[i], audit_rows'[i]))
             => Q(before, after)

TamperedRaised(before, after) ==
    /\ after.tampered = before.tampered + 1
    /\ ~after.integrity_valid

Unseen(before, after) == after.tampered = before.tampered

Undetectable(field, old, new) == ~Detectable(field, old, new)

AnyEdit(field, old, new) == TRUE

C19_AppendOnly ==
    /\ [][~TamperStep => IsPrefix(audit_rows, audit_rows')]_vars
    /\ [](\A i \in written :
             \/ tamper # NoTamper /\ tamper.index = i
             \/ /\ i <= Len(audit_rows)
                /\ EntryStatus(audit_rows[i]) = "valid")

\* two events were logged after an older row and all of the program's rows
\* verified
C19_Witness ==
    /\ tamper = NoTamper
    /\ Cardinality(written) >= 1
    /\ Len(audit_rows) >= 2
    /\ integrity_report # NoReport
    /\ integrity_report.valid = Cardinality(written)
    /\ integrity_report.total_logs = Len(audit_rows)

\* the checksum column is empty, or is not the recomputed checksum
ChecksumMissingOrDiffers(log) ==
    \/ log.checksum.null
    \/ log.checksum.text #
          CalculateChecksum(EventData(log.action_type, log.file_path,
                                      log.details, log.user))

\* the counts of the report add up and decide integrity_valid
ReportAddsUp(report) ==
    /\ report.total_logs = report.valid + report.tampered + report.legacy
    /\ report.integrity_valid <=> report.tampered = 0

\* C28: verify_audit_log_integrity classifies no entry dated on or after
\* the cutover as legacy; every examined entry dated on or after
\* the cutover whose checksum is missing or differs from the recomputed
\* one counts as tampered; total = valid + tampered + legacy, and
\* integrity_valid is true exactly when tampered = 0.
C28_LegacyOnlyBeforeCutover ==
    LET logs == GetAuditLogs(audit_rows, AuditLimit) IN
    /\ \A i \in logs :
          /\ EntryStatus(audit_rows[i]) = "legacy" =>
                ~PostCutover(audit_rows[i])
          /\ (PostCutover(audit_rows[i])
                 /\ ChecksumMissingOrDiffers(audit_rows[i])) =>
                EntryStatus(audit_rows[i]) = "tampered"
    /\ ReportAddsUp(VerifyAuditLogIntegrity(audit_rows))
    /\ integrity_report # NoReport => ReportAddsUp(integrity_report)

\* ------------------------------------------------------- restore_backup
\* Paths are strings over these characters, as sequences.
PathChars == {"/", ".", "a"}
Sep == <<"/">>
CurDir == <<".">>
ParDir == <<".", ".">>

\* the process's working directory
Cwd == <<"/", "c">>

\* the 'path' values a manifest may hold, and the restore_dir arguments
ManifestPaths == UNION {[1..n -> PathChars] : n \in 0..MaxPathLen}
RestoreDirs == {<<"/">>, <<"/", "r">>, <<"/", "r", "/">>, <<"r">>}

Slashes(path) == {k \in 1..Len(path) : path[k] = "/"}

\* os.path.basename: what follows the last "/"
Basename(path) ==
    IF Slashes(path) = {} THEN path
    ELSE LET last == CHOOSE k \in Slashes(path) :
                        \A j \in Slashes(path) : j <= k
         IN SubSeq(path, last + 1, Len(path))

\* os.path.join of two parts
JoinPath(a, b) ==
    IF b # <<>> /\ b[1] = "/" THEN b
    ELSE IF a = <<>> \/ a[Len(a)] = "/" THEN a \o b
    ELSE a \o Sep \o b

\* path.split('/')
RECURSIVE SplitPath(_)
SplitPath(path) ==
    IF Slashes(path) = {} THEN <<path>>
    ELSE LET first == CHOOSE k \in Slashes(path) :
                         \A j \in Slashes(path) : k <= j
         IN <<SubSeq(path, 1, first - 1)>>
               \o SplitPath(SubSeq(path, first + 1, Len(path)))

\* '/'.join(comps)
RECURSIVE JoinComps(_)
JoinComps(comps) ==
    IF comps = <<>> THEN <<>>
    ELSE IF Len(comps) = 1 THEN comps[1]
    ELSE comps[1] \o Sep \o JoinComps(Tail(comps))

\* the loop of os.path.normpath over the components
RECURSIVE Collapse(_, _, _)
Collapse(comps, new_comps, initial_slashes) ==
    IF comps = <<>> THEN new_comps
    ELSE LET comp == Head(comps) IN
         IF comp \in {<<>>, CurDir}
         THEN Collapse(Tail(comps), new_comps, initial_slashes)
         ELSE IF \/ comp # ParDir
                 \/ initial_slashes = 0 /\ new_comps = <<>>
                 \/ new_comps # <<>> /\ new_comps[Len(new_comps)] = ParDir
         THEN Collapse(Tail(comps), Append(new_comps, comp), initial_slashes)
         ELSE IF new_comps # <<>>
         THEN Collapse(Tail(comps),
                       SubSeq(new_comps, 1, Len(new_comps) - 1),
                       initial_slashes)
         ELSE Collapse(Tail(comps), new_comps, initial_slashes)

\* os.path.normpath (POSIX): exactly two leading slashes are kept
Normpath(path) ==
    IF path = <<>> THEN CurDir
    ELSE LET initial_slashes ==
                 IF path[1] # "/" THEN 0
                 ELSE IF /\ Len(path) >= 2 /\ path[2] = "/"
                         /\ ~(Len(path) >= 3 /\ path[3] = "/")
                 THEN 2 ELSE 1
             comps == Collapse(SplitPath(path), <<>>, initial_slashes)
             joined == [k \in 1..initial_slashes |-> "/"] \o JoinComps(comps)
         IN IF joined = <<>> THEN CurDir ELSE joined

\* os.path.abspath
Abspath(path) ==
    IF path # <<>> /\ path[1] = "/" THEN Normpath(path)
    ELSE Normpath(JoinPath(Cwd, path))

\* variant of TargetAllowed: no path is refused
TargetAllowedAlways(target_path, dir) == TRUE

\* target_path.startswith(restore_dir + os.sep)
TargetAllowed(target_path, dir) == IsPrefix(dir \o Sep, target_path)

\* where zf.extract(member, dir) writes: the member's name without its
\* empty, "." and ".." components, under dir
ExtractTarget(member, dir) ==
    LET Valid(comp) == comp \notin {<<>>, CurDir, ParDir}
        arcname == JoinComps(SelectSeq(SplitPath(member), Valid))
    IN Normpath(JoinPath(dir, arcname))

\* restore_dir after line 358, the base names of line 375, and for each
\* pair of them the target_path of line 377 and the path zf.extract writes
AbsDirs == {Abspath(dir) : dir \in RestoreDirs}
ManifestNames == {Basename(path) : path \in ManifestPaths}
TargetPath ==
    [dir \in AbsDirs, filename \in ManifestNames |->
        Abspath(JoinPath(dir, filename))]
Extracted ==
    [dir \in AbsDirs, filename \in ManifestNames |->
        ExtractTarget(filename, dir)]

\* the declared path has a ".." component
EncodesTraversal(path) ==
    \E k \in 1..Len(SplitPath(path)) : SplitPath(path)[k] = ParDir

\* what the loop sees of the entries a manifest may hold: the base name of
\* the declared path, with the history of whether the path had a ".."
ManifestFiles ==
    {[filename |-> Basename(path), traversal |-> EncodesTraversal(path)] :
        path \in ManifestPaths}

\* variant of RoundKind: the extracted file is not compared
RoundKindTrusting(dir, filename, member_present, hash_ok) ==
    IF ~TargetAllowed(TargetPath[dir, filename], dir) THEN "blocked"
    ELSE IF ~member_present \/ Extracted[dir, filename] = dir THEN "failed"
    ELSE "restored"

\* how one round of the loop ends: the entry is refused (line 378-380), the
\* extraction raises because the archive has no such member or the target
\* cannot be written (401-402), the hash differs (395-396), or the entry
\* is restored (397-400)
RoundKind(dir, filename, member_present, hash_ok) ==
    IF ~TargetAllowed(TargetPath[dir, filename], dir) THEN "blocked"
    ELSE IF ~member_present \/ Extracted[dir, filename] = dir THEN "failed"
    ELSE IF hash_ok THEN "restored"
    ELSE "integrity"

\* str(n) for the counts that occur
DigitString(n) ==
    <<"0", "1", "2", "3", "4", "5", "6", "7", "8", "9">>[n + 1]

\* restore_backup up to the loop: the backup file is looked for and its
\* manifest is read
RestoreBegin ==
    /\ restore_pc = "idle"
    /\ \E dir \in RestoreDirs,
          found \in {"ok", "Backup file not found",
                     "Invalid backup format (no manifest)"} :
          IF found = "Backup file not found"
          THEN /\ restore_pc' = "done"
               /\ restore_results' =
                     <<[filename |-> <<>>, traversal |-> FALSE,
                        compared |-> "none", kind |-> found]>>
               /\ restore_dir' = restore_dir
          ELSE IF found # "ok"
          THEN /\ restore_pc' = "done"
               /\ restore_results' =
                     <<[filename |-> <<>>, traversal |-> FALSE,
                        compared |-> "none", kind |-> found]>>
               /\ restore_dir' = Abspath(dir)
          ELSE /\ restore_pc' = "running"
               /\ restore_results' = <<>>
               /\ restore_dir' = Abspath(dir)
    /\ UNCHANGED <<disk, audit_rows, written, beyond_restore>>

\* one round of the loop over manifest['files']; the entry keeps, as
\* history, whether the hashes were compared and how
RestoreFile ==
    /\ restore_pc = "running"
    /\ Len(restore_results) < MaxManifest
    /\ \E file \in ManifestFiles, member_present \in BOOLEAN,
          hash_ok \in BOOLEAN :
          LET kind == RoundKind(restore_dir, file.filename, member_present,
                                hash_ok)
              extracted ==
                 /\ TargetAllowed(TargetPath[restore_dir, file.filename],
                                  restore_dir)
                 /\ member_present
                 /\ Extracted[restore_dir, file.filename] # restore_dir
          IN /\ restore_results' =
                   Append(restore_results,
                          [filename |-> file.filename,
                           traversal |-> file.traversal,
                           compared |-> IF ~extracted THEN "none"
                                        ELSE IF hash_ok THEN "equal"
                                        ELSE "differs",
                           kind |-> kind])
             /\ disk' = IF extracted
                        THEN disk \cup {Extracted[restore_dir, file.filename]}
                        ELSE disk
    /\ UNCHANGED <<restore_pc, restore_dir, audit_rows, written,
                   beyond_restore>>

\* restore_backup after the loop: the audit event and the return
RestoreEnd ==
    /\ restore_pc = "running"
    /\ restore_pc' = "done"
    /\ LET restored == {i \in 1..Len(restore_results) :
                           restore_results[i].kind = "restored"}
       IN audit_rows' =
             InsertAuditLog(audit_rows, Text(<<"backup_restored">>),
                            Text(<<"backup.zip">>),
                            Text(<<"Restored ",
                                   DigitString(Cardinality(restored)),
                                   " files">>),
                            Text(<<"info">>))
    /\ written' = written \cup {Len(audit_rows')}
    /\ UNCHANGED <<restore_dir, restore_results, disk, beyond_restore>>

\* --------------------------------------------- properties of the restore
\* the names on the way from the root to a normalized absolute path
Components(path) ==
    LET NonEmpty(comp) == comp # <<>>
    IN SelectSeq(SplitPath(path), NonEmpty)

\* path lies below dir
InsideDir(path, dir) ==
    /\ Len(Components(path)) > Len(Components(dir))
    /\ IsPrefix(Components(dir), Components(path))

\* this step is a round of the loop; the entry it appended
RestoreFileStep == Len(restore_results') = Len(restore_results) + 1
NewEntry == restore_results'[Len(restore_results')]

C21_TraversalReported ==
    [][(/\ restore_pc = "running"
        /\ RestoreFileStep
        /\ NewEntry.traversal)
          => /\ NewEntry.kind = "blocked"
             /\ disk' = disk]_vars

\* results['restored'] and results['errors'] of restore_backup
RestoredList(results) ==
    LET Ok(entry) == entry.kind = "restored" IN SelectSeq(results, Ok)
ErrorsList(results) ==
    LET Bad(entry) == entry.kind # "restored" IN SelectSeq(results, Bad)

\* restore_backup has returned before the loop, with an 'error' and
\* success False (lines 356 and 370)
ReturnedEarly ==
    /\ restore_results # <<>>
    /\ restore_results[1].kind \in {"Backup file not found",
                                    "Invalid backup format (no manifest)"}

\* results['success'] of the dict returned after the loop: set at line 363
\* and not assigned again
ResultsSuccess == ~ReturnedEarly

\* C38: restore_backup returns success true only if its errors list is
\* empty: no entry was blocked, failed to extract or failed its hash check.
C38_SuccessMeansNoErrors ==
    (restore_pc = "done" /\ ResultsSuccess) =>
        ErrorsList(restore_results) = <<>>

RmDirs == {<<>>, <<"/", "r">>, <<"r">>}
RmTargets == {<<>>, <<"/", "r", "/", "a">>}

\* where zf.extract(filename, restore_dir) of restore_files writes
RmExtracted ==
    [dir \in RmDirs \ {<<>>}, filename \in ManifestNames |->
        Abspath(ExtractTarget(filename, dir))]

\* restore_files up to the loop (lines 714-744)
RestoreFilesBegin ==
    /\ rm_pc = "idle"
    /\ \E dir \in RmDirs, overwrite \in BOOLEAN,
          refused \in {"no", "invalid backup", "cannot create directory",
                       "not a zip"} :
          /\ rm_call' = [op |-> "restore_files", restore_dir |-> dir,
                         overwrite |-> overwrite]
          /\ IF refused = "invalid backup"
             THEN /\ rm_pc' = "done"
                  /\ rm_result' = <<[filename |-> <<>>, kind |-> refused]>>
             ELSE IF dir = <<>>
             THEN /\ rm_pc' = "done"
                  /\ rm_result' =
                        <<[filename |-> <<>>,
                           kind |-> "Restore directory not specified"]>>
             ELSE IF refused # "no"
             THEN /\ rm_pc' = "done"
                  /\ rm_result' = <<[filename |-> <<>>, kind |-> refused]>>
             ELSE /\ rm_pc' = "running"
                  /\ rm_result' = <<>>
    /\ UNCHANGED <<rm_disk, rm_history, beyond_rm>>

\* one round of the loop of restore_files (lines 748-803)
RestoreFilesEntry ==
    /\ rm_pc = "running"
    /\ Len(rm_result) < MaxManifest
    /\ \E filename \in ManifestNames, exists \in BOOLEAN,
          member_present \in BOOLEAN, integrity_ok \in BOOLEAN :
          LET dir == rm_call.restore_dir
              target == RmExtracted[dir, filename]
              Entry(kind) == [filename |-> filename, kind |-> kind]
          IN IF exists /\ ~rm_call.overwrite
             THEN /\ rm_result' = Append(rm_result, Entry("skipped"))
                  /\ rm_disk' = rm_disk
             ELSE IF ~member_present \/ target = Abspath(dir)
             THEN /\ rm_result' = Append(rm_result, Entry("error"))
                  /\ rm_disk' = rm_disk
             ELSE /\ rm_result' =
                        Append(rm_result,
                               Entry(IF integrity_ok THEN "restored"
                                     ELSE "restored, integrity not ok"))
                  /\ rm_disk' = rm_disk \cup
                                   {[path |-> target, dest |-> Abspath(dir)]}
    /\ UNCHANGED <<rm_pc, rm_call, rm_history, beyond_rm>>

\* restore_files after the loop: _log_restore and the return
\* (lines 805-809)
RestoreFilesEnd ==
    /\ rm_pc = "running"
    /\ rm_pc' = "done"
    /\ LET Bad(entry) == entry.kind = "error"
           errors == SelectSeq(rm_result, Bad)
       IN rm_history' =
             Append(rm_history,
                    [success |-> errors = <<>>,
                     errors_count |-> Len(errors)])
    /\ UNCHANGED <<rm_call, rm_result, rm_disk, beyond_rm>>

\* restore_single_file: the entry whose base name is filename is looked
\* up; the file goes to target_path, or without one to the path the
\* manifest declares (lines 853-876)
RestoreSingleFile ==
    /\ rm_pc = "idle"
    /\ rm_pc' = "done"
    /\ \E path \in ManifestPaths, target_path \in RmTargets,
          outcome \in {"ok", "invalid backup", "not found", "no member"} :
          LET filename == Basename(path)
              result_target == IF target_path # <<>> THEN target_path
                               ELSE IF path # <<>> THEN path
                               ELSE filename
              \* zf.extract writes temp_dir/filename only for a member
              \* whose name is a plain one
              copied == /\ outcome = "ok"
                        /\ filename \notin {<<>>, CurDir, ParDir}
          IN /\ rm_call' = [op |-> "restore_single_file",
                            filename |-> filename,
                            target_path |-> target_path]
             /\ rm_result' =
                   <<[filename |-> filename,
                      kind |-> IF outcome = "ok" /\ ~copied
                               THEN "extract failed" ELSE outcome]>>
             /\ rm_disk' =
                   IF copied
                   THEN rm_disk \cup
                           {[path |-> Abspath(result_target),
                             dest |-> IF target_path # <<>>
                                      THEN Abspath(target_path) ELSE <<>>]}
                   ELSE rm_disk
    /\ UNCHANGED <<rm_history, beyond_rm>>

\* C22: every file restore_files or restore_single_file writes is at, or
\* below, the destination the caller chose.
C22_WritesAtDestination ==
    \A file \in rm_disk :
       /\ file.dest # <<>>
       /\ \/ file.path = file.dest
          \/ InsideDir(file.path, file.dest)

\* the pipeline at rest on an empty batch
\* ------------------------- register_file_hash and verify_file_integrity
FiPaths == {"f"}
FiContents == {<<>>, <<"x">>, <<"y">>}

\* os.path.exists
FileExists(p) == p \in DOMAIN fi_files

\* calculate_sha256 on the files of this service
FileSha256(p) ==
    IF FileExists(p) /\ fi_files[p].readable
    THEN Sha256(fi_files[p].content) ELSE Nil

\* os.path.getsize
GetSize(p) == Len(fi_files[p].content)

\* how an f-string renders a bool
BoolStr(b) == IF b THEN "True" ELSE "False"

\* register_file_hash(filepath)
RegisterFileHash ==
    /\ \E p \in FiPaths :
          LET file_hash == FileSha256(p) IN
          IF ~FileExists(p) \/ file_hash = Nil
          THEN /\ fi_result' = [kind |-> "register", path |-> p,
                                ok |-> FALSE]
               /\ fi_registry' = fi_registry
          ELSE /\ fi_registry' =
                     [q \in DOMAIN fi_registry \cup {p} |->
                         IF q = p
                         THEN [hash_sha256 |-> file_hash,
                               file_size |-> GetSize(p)]
                         ELSE fi_registry[q]]
               /\ fi_result' = [kind |-> "register", path |-> p,
                                ok |-> TRUE]
    /\ UNCHANGED <<fi_files, audit_rows, written, beyond_files>>

\* variant of VerifyReturn: only the sizes are compared
VerifyReturnSizeOnly(p) ==
    IF p \notin DOMAIN fi_registry
    THEN [kind |-> "verify", path |-> p, status |-> "unregistered",
          is_valid |-> Nil, hash_match |-> Nil, size_match |-> Nil]
    ELSE LET current_size == IF FileExists(p) THEN GetSize(p) ELSE 0
             size_match == current_size = fi_registry[p].file_size
         IN [kind |-> "verify", path |-> p,
             status |-> IF size_match THEN "verified" ELSE "tampered",
             is_valid |-> <<size_match>>,
             hash_match |-> <<size_match>>, size_match |-> <<size_match>>]

\* the dict verify_file_integrity(filepath) returns (lines 231-259)
VerifyReturn(p) ==
    IF p \notin DOMAIN fi_registry
    THEN [kind |-> "verify", path |-> p, status |-> "unregistered",
          is_valid |-> Nil, hash_match |-> Nil, size_match |-> Nil]
    ELSE LET current_hash == FileSha256(p)
             current_size == IF FileExists(p) THEN GetSize(p) ELSE 0
             hash_match == current_hash = fi_registry[p].hash_sha256
             size_match == current_size = fi_registry[p].file_size
             is_valid == hash_match /\ size_match
         IN [kind |-> "verify", path |-> p,
             status |-> IF is_valid THEN "verified" ELSE "tampered",
             is_valid |-> <<is_valid>>,
             hash_match |-> <<hash_match>>, size_match |-> <<size_match>>]

\* verify_file_integrity(filepath)
VerifyFileIntegrity ==
    /\ Len(audit_rows) < MaxEntries
    /\ \E p \in FiPaths :
          LET ret == VerifyReturn(p) IN
          /\ fi_result' = ret
          /\ IF ret.is_valid = <<FALSE>>
             THEN /\ audit_rows' =
                        InsertAuditLog(audit_rows,
                            Text(<<"integrity_violation">>), Text(<<p>>),
                            Text(<<"Hash match: ", BoolStr(ret.hash_match[1]),
                                   ", Size match: ",
                                   BoolStr(ret.size_match[1])>>),
                            Text(<<"critical">>))
                  /\ written' = written \cup {Len(audit_rows')}
             ELSE UNCHANGED <<audit_rows, written>>
    /\ UNCHANGED <<fi_files, fi_registry, beyond_files>>

\* a file is created or rewritten
WriteFile ==
    /\ \E p \in FiPaths, content \in FiContents :
          fi_files' = [q \in DOMAIN fi_files \cup {p} |->
                          IF q = p
                          THEN [content |-> content, readable |-> TRUE]
                          ELSE fi_files[q]]
    /\ UNCHANGED <<fi_registry, fi_result, audit_rows, written,
                   beyond_files>>

\* a file is deleted
DeleteFile ==
    /\ \E p \in DOMAIN fi_files :
          fi_files' = [q \in DOMAIN fi_files \ {p} |-> fi_files[q]]
    /\ UNCHANGED <<fi_registry, fi_result, audit_rows, written,
                   beyond_files>>

\* the permissions of a file change so that the process may or may not
\* read it
ChmodFileReadable ==
    /\ \E p \in DOMAIN fi_files :
          fi_files' = [fi_files EXCEPT ![p].readable = ~@]
    /\ UNCHANGED <<fi_registry, fi_result, audit_rows, written,
                   beyond_files>>

\* ------------------------------- properties of verify_file_integrity
\* a step on which verify_file_integrity returns
VerifyFileStep ==
    /\ fi_result'.kind = "verify"
    /\ fi_result' # fi_result \/ audit_rows' # audit_rows

\* the file is there, can be read, and its hash and size are those of the
\* registered record
MatchesRecord(p) ==
    /\ p \in DOMAIN fi_files
    /\ fi_files[p].readable
    /\ Sha256(fi_files[p].content) = fi_registry[p].hash_sha256
    /\ Len(fi_files[p].content) = fi_registry[p].file_size

\* the row is a critical integrity_violation event about p
IsViolationEvent(row, p) ==
    /\ row.action_type = Text(<<"integrity_violation">>)
    /\ row.severity = Text(<<"critical">>)
    /\ row.file_path = Text(<<p>>)

MAX_FILE_SIZE == 100
FileSizes == {1, 200, 600}
PlainContents == {"p", "q"}
PlainMode == ParseOct(<<6, 4, 4>>)
OwnerOnly == ParseOct(<<6, 0, 0>>)

beyond_encryption ==
    <<pipeline_vars, security_vars, ledger_vars, restore_vars, rm_vars,
      file_vars, run_vars, meta_vars, backup_vars>>

\* somebody puts a file, or a symlink to one, at the path
CreatePlainFile ==
    /\ em_orig = Absent
    /\ \E content \in PlainContents, size \in FileSizes, link \in BOOLEAN :
          em_orig' = [kind |-> "file", content |-> content, size |-> size,
                      link |-> link, mode |-> PlainMode]
    /\ UNCHANGED <<em_enc, em_quarantine, em_clock, em_result, em_events,
                   em_encrypted, beyond_encryption>>

\* a second passes
EncTick ==
    /\ em_clock < MaxEncTime
    /\ em_clock' = em_clock + 1
    /\ UNCHANGED <<em_orig, em_enc, em_quarantine, em_result, em_events,
                   em_encrypted, beyond_encryption>>

\* how _quarantine_file can end (lines 154-196): moved and restricted; or
\* an exception from makedirs, from shutil.move, or from the chmod that
\* follows the move
QuarantineOutcomes ==
    {"ok", "move_failed", "chmod_failed"}
        \cup (IF DOMAIN em_quarantine = {} THEN {"mkdir_failed"} ELSE {})

\* .quarantine/ after _quarantine_file: shutil.move replaces a file of the
\* same name
Quarantined(outcome) ==
    IF outcome \in {"ok", "chmod_failed"}
    THEN [t \in DOMAIN em_quarantine \cup {em_clock} |->
             IF t = em_clock
             THEN [content |-> em_orig.content,
                   mode |-> IF outcome = "ok" THEN OwnerOnly
                            ELSE em_orig.mode]
             ELSE em_quarantine[t]]
    ELSE em_quarantine

\* what a call returns to run(): True, False, or an exception
EncResult(ret, read, quarantined) ==
    [kind |-> "call", returned |-> ret, read |-> read,
     warned |-> em_orig # Absent /\ em_orig.size > MAX_FILE_SIZE,
     quarantined |-> quarantined]

\* _encrypt_file(filepath), with the _quarantine_file call it ends in
EncryptFile ==
    /\ IF em_orig = Absent
       THEN /\ em_result' = EncResult("raised", FALSE, FALSE)
            /\ UNCHANGED <<em_orig, em_enc, em_quarantine, em_events,
                           em_encrypted>>
       ELSE IF em_orig.link
       THEN /\ em_result' = EncResult("False", FALSE, FALSE)
            /\ UNCHANGED <<em_orig, em_enc, em_quarantine, em_events,
                           em_encrypted>>
       ELSE \E io \in {"open_failed", "write_failed", "chmod_failed", "ok"} :
            LET artifact(complete) ==
                   [kind |-> "file", plaintext |-> em_orig.content,
                    complete |-> complete]
            IN
            IF io # "ok"
            THEN /\ em_result' = EncResult("raised", TRUE, FALSE)
                 /\ em_enc' = IF io = "open_failed" THEN em_enc
                              ELSE artifact(io = "chmod_failed")
                 /\ UNCHANGED <<em_orig, em_quarantine, em_events,
                                em_encrypted>>
            ELSE \E outcome \in QuarantineOutcomes :
                 /\ em_enc' = artifact(TRUE)
                 /\ em_quarantine' = Quarantined(outcome)
                 /\ em_orig' = IF outcome \in {"ok", "chmod_failed"}
                               THEN Absent ELSE em_orig
                 /\ em_events' = em_events
                       \cup {[action_type |-> "file_encrypted",
                              severity |-> "info"],
                             IF outcome = "ok"
                             THEN [action_type |-> "file_quarantined",
                                   severity |-> "info"]
                             ELSE [action_type |-> "quarantine_failed",
                                   severity |-> "warning"]}
                 /\ em_encrypted' = em_encrypted \cup {em_orig.content}
                 /\ em_result' = EncResult("True", TRUE, outcome = "ok")
    /\ UNCHANGED <<em_clock, beyond_encryption>>

\* ------------------------------------------ properties of _encrypt_file
\* the plaintext is kept: in the quarantine folder with owner-only mode, or
\* at its original path
PlaintextKept(content) ==
    \/ \E t \in DOMAIN em_quarantine :
          /\ em_quarantine[t].content = content
          /\ em_quarantine[t].mode = OwnerOnly
    \/ em_orig # Absent /\ em_orig.content = content

\* C31: the plaintext of every file that was encrypted exists in the
\* quarantine folder under a timestamped name with owner-only mode, or, if
\* quarantining failed, at its original path; and a call whose quarantine
\* failed has still returned True.
C31_PlaintextKept ==
    /\ \A content \in em_encrypted : PlaintextKept(content)
    /\ (em_result # NoEncCall /\ em_result.returned = "True"
           /\ ~em_result.quarantined) => em_orig # Absent

\* C32: a file above the hard cap of 500 MiB is rejected up front: while
\* it is at the path no call reads it, no .enc file is written and the
\* file stays in place.
C32_HardCap ==
    [][(em_orig # Absent /\ em_orig.size > 500) =>
          /\ em_orig' = em_orig
          /\ em_enc' = em_enc
          /\ em_result' # em_result => ~em_result'.read]_vars

\* ------------------------------------------------- PermissionMetadata
\* permission strings are sequences of digits; <<9>> is no octal number
PmPaths == {"a", "b"}
OldPermissions == {<<7, 7, 7>>, <<9>>}
NewPermissions == {<<6, 4, 4>>}
RiskLevels == {"High", None}

beyond_metadata ==
    <<pipeline_vars, security_vars, ledger_vars, restore_vars, rm_vars,
      file_vars, run_vars, em_vars, backup_vars>>

\* changes["id"] of the entry about to be appended
ChangeIdFirst(metadata) == 1
ChangeId(metadata) == Len(metadata.changes) + 1

\* _load_metadata; the file holds what the latest _save_metadata wrote
LoadMetadata ==
    IF pm_file = Nil THEN [changes |-> <<>>, summary |-> Nil]
    ELSE pm_file[1]

\* int(octal_str, 8) succeeds
IsOctal(s) == \A i \in 1..Len(s) : s[i] \in 0..7

\* the metadata log_permission_change saves; reason is Nil for the default
\* text and <<n>> for "Reverted change #n". The timestamps and the file_info
\* of the entry are left out
LoggedMetadata(metadata, filepath, old_permission, new_permission, risk_level, reason) ==
    LET change_entry == [id |-> ChangeId(metadata),
                         filepath |-> filepath,
                         old_permission |-> old_permission,
                         new_permission |-> new_permission,
                         risk_level |-> risk_level,
                         reason |-> reason,
                         reversible |-> TRUE]
        summary == IF metadata.summary = Nil
                   THEN [total_changes |-> 0,
                         by_risk_level |->
                             [High |-> 0, Medium |-> 0, Low |-> 0]]
                   ELSE metadata.summary[1]
        counted == IF risk_level \in DOMAIN summary.by_risk_level
                   THEN [summary.by_risk_level EXCEPT ![risk_level] = @ + 1]
                   ELSE summary.by_risk_level
    IN  [changes |-> Append(metadata.changes, change_entry),
         summary |-> <<[total_changes |-> summary.total_changes + 1,
                        by_risk_level |-> counted]>>]

LogPermissionChange ==
    /\ Len(LoadMetadata.changes) < MaxChanges
    /\ \E filepath \in PmPaths, old_permission \in OldPermissions,
          new_permission \in NewPermissions, risk_level \in RiskLevels :
          /\ pm_file' = <<LoggedMetadata(LoadMetadata, filepath,
                                         old_permission, new_permission,
                                         risk_level, Nil)>>
          /\ pm_result' = [op |-> "log", id |-> ChangeId(LoadMetadata),
                           outcome |-> "logged"]
    /\ UNCHANGED <<pm_target, beyond_metadata>>

\* the entries of the ledger with the id asked for, in ledger order
Matching(changes, change_id) ==
    SelectSeq(changes, LAMBDA change : change.id = change_id)

RevertChange(change_id) ==
    LET metadata == LoadMetadata
        found == Matching(metadata.changes, change_id)
        change == found[1]
        ends(outcome) ==
            pm_result' = [op |-> "revert", id |-> change_id,
                          outcome |-> outcome]
    IN  /\ Len(metadata.changes) < MaxChanges
        /\ IF found = <<>>
           THEN /\ ends("Change not found")
                /\ UNCHANGED <<pm_file, pm_target>>
           ELSE IF change.filepath \notin DOMAIN pm_target
           THEN /\ ends("File no longer exists")
                /\ UNCHANGED <<pm_file, pm_target>>
           ELSE IF ~IsOctal(change.old_permission)
           THEN /\ ends("ValueError")
                /\ UNCHANGED <<pm_file, pm_target>>
           ELSE \/ /\ ends("OSError")
                   /\ UNCHANGED <<pm_file, pm_target>>
                \/ /\ pm_target' =
                          [pm_target EXCEPT ![change.filepath] =
                              ParseOct(change.old_permission)]
                   /\ pm_file' = <<LoggedMetadata(LoadMetadata,
                                       change.filepath,
                                       change.new_permission,
                                       change.old_permission,
                                       change.risk_level, <<change_id>>)>>
                   /\ ends("reverted")
        /\ UNCHANGED beyond_metadata

RevertSome == \E change_id \in 1..MaxChanges : RevertChange(change_id)

\* a file the entries are about appears, or is removed
TargetAppears ==
    /\ \E filepath \in PmPaths \ DOMAIN pm_target :
          pm_target' = [p \in DOMAIN pm_target \cup {filepath} |->
                           IF p = filepath THEN ParseOct(<<6, 4, 4>>)
                           ELSE pm_target[p]]
    /\ UNCHANGED <<pm_file, pm_result, beyond_metadata>>

TargetRemoved ==
    /\ \E filepath \in DOMAIN pm_target :
          pm_target' = [p \in DOMAIN pm_target \ {filepath} |-> pm_target[p]]
    /\ UNCHANGED <<pm_file, pm_result, beyond_metadata>>

Changes == LoadMetadata.changes
ChangesAfter == LoadMetadata.changes'

BkPaths == {<<"/", "a", "/", "a">>, <<"/", "a", "a", "/", "a">>,
            <<"/", "a", "/", "a", "a">>}
BkContents == {"x", "y"}
BkRestoreDir == <<"/", "r">>

\* the lists of distinct paths a caller passes
BkFileLists ==
    {files \in UNION {[1..n -> BkPaths] : n \in 1..MaxBackupFiles} :
        \A i, j \in 1..Len(files) : files[i] = files[j] => i = j}

\* the files_data a caller of PermissionBackup.create_backup passes
BkFilesData ==
    {<<[path |-> <<"/", "a", "/", "a">>, old_permission |-> <<7, 7, 7>>,
        new_permission |-> <<6, 4, 4>>, risk_level |-> risk]>> :
        risk \in {"High", "Low"}}

beyond_backup ==
    <<pipeline_vars, security_vars, ledger_clock, tamper, integrity_report,
      restore_vars, rm_vars, file_vars, run_vars, em_vars, meta_vars>>

\* d with key k set to v
DictSet(d, k, v) ==
    [x \in DOMAIN d \cup {k} |-> IF x = k THEN v ELSE d[x]]

\* a file is written, or written again
PutFile ==
    /\ \E path \in BkPaths, content \in BkContents :
          /\ DictGet(bk_files, path, None) # content
          /\ bk_files' = DictSet(bk_files, path, content)
    /\ UNCHANGED <<bk_clock, bk_archives, bk_permission, bk_restore_dir,
                   bk_result, bk_calls, audit_rows, written, beyond_backup>>

\* a second passes
BackupTick ==
    /\ bk_clock < MaxBackupTime
    /\ bk_clock' = bk_clock + 1
    /\ UNCHANGED <<bk_files, bk_archives, bk_permission, bk_restore_dir,
                   bk_result, bk_calls, audit_rows, written, beyond_backup>>

\* backup_name: "backup_" + strftime("%Y%m%d_%H%M%S") + ".zip"
BackupName(timestamp) == <<"backup_", DigitString(timestamp), ".zip">>

\* the archive create_backup writes: one member per existing file, named
\* by its base name, in the order of the list, then the manifest. The
\* sizes, the modes and the .sha256 file are left out
RECURSIVE ArchiveOf(_)
ArchiveOf(files) ==
    IF files = <<>> THEN [members |-> <<>>, manifest |-> <<>>]
    ELSE LET filepath == files[Len(files)]
             before == ArchiveOf(SubSeq(files, 1, Len(files) - 1))
         IN IF filepath \notin DOMAIN bk_files THEN before
            ELSE [members |->
                     Append(before.members,
                            [name |-> Basename(filepath),
                             content |-> bk_files[filepath]]),
                  manifest |->
                     Append(before.manifest,
                            [path |-> filepath,
                             hash |-> Sha256(bk_files[filepath])])]

CreateZipBackupOf(files) ==
    /\ bk_calls < MaxBackupCalls
    /\ bk_calls' = bk_calls + 1
    /\ bk_archives' = DictSet(bk_archives, bk_clock, ArchiveOf(files))
    /\ audit_rows' =
          InsertAuditLog(audit_rows, Text(<<"backup_created">>),
                         Text(BackupName(bk_clock)),
                         Text(<<"Backup created with ",
                                DigitString(Len(files)), " files">>),
                         Text(<<"info">>))
    /\ written' = written \cup {Len(audit_rows')}
    /\ bk_result' = [op |-> "create_backup", path |-> bk_clock]
    /\ UNCHANGED <<bk_files, bk_clock, bk_permission, bk_restore_dir,
                   beyond_backup>>

CreateZipBackup == \E files \in BkFileLists : CreateZipBackupOf(files)

\* the member zf.extract(name) and zf.read(name) find: the one added last
\* under that name
MembersNamed(members, name) ==
    {i \in 1..Len(members) : members[i].name = name}
LastMember(members, name) ==
    members[CHOOSE i \in MembersNamed(members, name) :
               \A j \in MembersNamed(members, name) : j <= i]

\* the rounds of restore_backup's loop on an archive: results, the entries
\* of results['restored'] and results['errors'] in the order appended, and
\* dir, the files extracted
RECURSIVE RestoreRounds(_, _)
RestoreRounds(archive, n) ==
    IF n = 0 THEN [results |-> <<>>, dir |-> bk_restore_dir]
    ELSE LET before == RestoreRounds(archive, n - 1)
             file_info == archive.manifest[n]
             filename == Basename(file_info.path)
             abs_dir == Abspath(BkRestoreDir)
             member_present ==
                 MembersNamed(archive.members, filename) # {}
             extracted == LastMember(archive.members, filename).content
             hash_ok == member_present /\ Sha256(extracted) = file_info.hash
             kind == RoundKind(abs_dir, filename, member_present,
                               hash_ok)
         IN [results |-> Append(before.results,
                                [filename |-> filename, kind |-> kind]),
             dir |-> IF kind \in {"restored", "integrity"}
                     THEN DictSet(before.dir, filename, extracted)
                     ELSE before.dir]

\* restore_backup(backup_path, restore_dir) on one of the archives
\* create_backup has written
RestoreArchive(timestamp) ==
    LET archive == bk_archives[timestamp]
        rounds == RestoreRounds(archive, Len(archive.manifest))
    IN  /\ bk_calls < MaxBackupCalls
        /\ bk_calls' = bk_calls + 1
        /\ bk_restore_dir' = rounds.dir
        /\ audit_rows' =
              InsertAuditLog(audit_rows, Text(<<"backup_restored">>),
                             Text(BackupName(timestamp)),
                             Text(<<"Restored ",
                                    DigitString(Len(RestoredList(
                                                      rounds.results))),
                                    " files">>),
                             Text(<<"info">>))
        /\ written' = written \cup {Len(audit_rows')}
        /\ bk_result' = [op |-> "restore_backup", path |-> timestamp,
                         files |-> archive.manifest,
                         restored |-> RestoredList(rounds.results),
                         errors |-> ErrorsList(rounds.results)]
        /\ UNCHANGED <<bk_files, bk_clock, bk_archives, bk_permission,
                       beyond_backup>>

RestoreSomeArchive ==
    \E timestamp \in DOMAIN bk_archives : RestoreArchive(timestamp)

\* backup_data["summary"] of PermissionBackup.create_backup
RiskSummary(batch) ==
    LET Count(risk) ==
            Cardinality({i \in 1..Len(batch) :
                            batch[i].risk_level = risk})
    IN [high_risk |-> Count("High"), medium_risk |-> Count("Medium"),
        low_risk |-> Count("Low")]

\* PermissionBackup.create_backup: backup_<%H%M%S>.json in today's
\* directory
CreatePermissionBackupOf(batch) ==
    /\ bk_calls < MaxBackupCalls
    /\ bk_calls' = bk_calls + 1
    /\ bk_permission' =
          DictSet(bk_permission, bk_clock,
                  [total_files |-> Len(batch),
                   summary |-> RiskSummary(batch),
                   files |-> batch])
    /\ bk_result' = [op |-> "permission_backup", path |-> bk_clock]
    /\ UNCHANGED <<bk_files, bk_clock, bk_archives, bk_restore_dir,
                   audit_rows, written, beyond_backup>>

CreatePermissionBackup ==
    \E batch \in BkFilesData : CreatePermissionBackupOf(batch)

\* C37: restore_backup applied to an archive create_backup has produced
\* lists every file of the archive in restored, each with a matching
\* hash, and reports no errors, also when files of different directories
\* share a base name.
C37_RoundTrip ==
    bk_result.op = "restore_backup" =>
        /\ bk_result.errors = <<>>
        /\ Len(bk_result.restored) = Len(bk_result.files)
        /\ \A i \in 1..Len(bk_result.files) :
              bk_result.restored[i].filename
                 = Basename(bk_result.files[i].path)

\* every backup d holds is in the directory after the step, as it was
Kept(d, after) == \A t \in DOMAIN d : t \in DOMAIN after /\ after[t] = d[t]

\* C39: every backup-creating call produces a new artifact and leaves the
\* backups written before as they were, also when two backups are
\* created within the same second.
C39_BackupsKept ==
    [][/\ Kept(bk_archives, bk_archives')
       /\ Kept(bk_permission, bk_permission')
       /\ CreateZipBackup => DOMAIN bk_archives' # DOMAIN bk_archives
       /\ CreatePermissionBackup =>
             DOMAIN bk_permission' # DOMAIN bk_permission]_vars

\* ----------------------------- the rate limiter when its store fails
\* variant of CheckLimitFailed: a check that cannot read the store refuses
CheckLimitFailedClosed ==
    [allowed |-> FALSE, current_attempts |-> 0, remaining |-> 0,
     wait_time |-> 0]

\* the dict check_limit returns from its except branch
CheckLimitFailed ==
    [allowed |-> TRUE, current_attempts |-> 0, remaining |-> max_attempts,
     wait_time |-> 0]

\* the table after a record_attempt whose store access has raised: the
\* exception is printed, nothing is committed
RecordAttemptFailed(rows, key, success) == rows

\* decrypt_data, lines 220-225, when sqlite3 raises inside check_limit:
\* at the connect, or at the SELECT after the cleanup has been committed
DecryptBeginStoreDown(c) ==
    /\ decrypt_calls[c].pc = "idle"
    /\ Len(rate_limit_attempts) < MaxStoredAttempts
    /\ LET rate_check == CheckLimitFailed
       IN /\ rate_limit_attempts' \in
                {rate_limit_attempts,
                 CleanupOldAttempts(rate_limit_attempts, DECRYPT)}
          /\ IF ~rate_check.allowed
             THEN /\ \E args \in DecryptInputs :
                       last_return' = [kind |-> "RateLimited",
                                       data |-> None,
                                       cipher_run |-> FALSE,
                                       caller |-> c,
                                       args |-> args,
                                       fresh |-> limiter_fresh]
                  /\ decrypt_calls' = decrypt_calls
             ELSE /\ decrypt_calls' =
                        [decrypt_calls EXCEPT ![c] = [pc |-> "checked"]]
                  /\ last_return' = last_return
    /\ limiter_fresh' = FALSE
    /\ UNCHANGED <<now, beyond_security>>

\* decrypt_data, lines 227-257, when sqlite3 raises inside record_attempt
DecryptEndStoreDown(c) ==
    /\ decrypt_calls[c].pc = "checked"
    /\ \E args \in DecryptInputs :
         LET outcome == DecryptOutcome(args) IN
         /\ rate_limit_attempts' =
                RecordAttemptFailed(rate_limit_attempts, DECRYPT,
                                    outcome.kind = "data")
         /\ last_return' = [kind |-> outcome.kind,
                            data |-> outcome.data,
                            cipher_run |-> outcome.cipher_run,
                            caller |-> c,
                            args |-> args,
                            fresh |-> FALSE]
    /\ decrypt_calls' = [decrypt_calls EXCEPT ![c] = NoCall]
    /\ UNCHANGED <<now, limiter_fresh, beyond_security>>

\* C40: the rate limiter fails open: a check_limit that cannot read the
\* store reports allowed with current_attempts 0, so the decrypt_data call
\* goes on to its verification; a store failure in record_attempt is
\* swallowed: the call ends as the decryption itself ends, and the attempt
\* is not counted.
C40_FailsOpen ==
    [][\A c \in Callers :
          /\ DecryptBeginStoreDown(c) =>
                /\ CheckLimitFailed.allowed
                /\ CheckLimitFailed.current_attempts = 0
                /\ decrypt_calls'[c].pc = "checked"
                /\ last_return' = last_return
          /\ DecryptEndStoreDown(c) =>
                /\ last_return'.caller = c
                /\ last_return'.kind = DecryptOutcome(last_return'.args).kind
                /\ last_return'.kind # "RateLimited"
                /\ rate_limit_attempts' = rate_limit_attempts]_vars

\* a call has ended with a wrong password in the first second, and the
\* table holds no attempt
C40_Witness ==
    /\ now = 1
    /\ last_return # NoReturn
    /\ last_return.kind = "InvalidPassword"
    /\ rate_limit_attempts = <<>>

PipelineIdle ==
    /\ files_data = <<>>
    /\ custom_mode = Nil
    /\ enable_encryption = FALSE
    /\ encryption_password = None
    /\ progress_callback = FALSE
    /\ step_callback = FALSE
    /\ fsMode = EmptyDict
    /\ fsContent = EmptyDict
    /\ orig_mode = EmptyDict
    /\ pc = "idle"
    /\ current_step = None
    /\ is_cancelled = FALSE
    /\ encrypted_files = {}
    /\ result = Nil
    /\ hashes_before = EmptyDict
    /\ hashes_after = EmptyDict
    /\ file_hashes = EmptyDict
    /\ rollback_stack = <<>>
    /\ cp = Nil
    /\ audit_logs = <<>>
    /\ backups = <<>>
    /\ enc_files = {}
    /\ corrupted = {}
    /\ env_faults = {}

SecurityInit ==
    /\ PipelineIdle
    /\ SecurityIdle
    /\ LedgerIdle
    /\ RestoreIdle
    /\ RmIdle
    /\ FilesIdle
    /\ FirstRun
    /\ EncryptIdle
    /\ MetadataIdle
    /\ BackupIdle

SecurityNext ==
    \/ \E c \in Callers : DecryptBegin(c)
    \/ \E c \in Callers : DecryptEnd(c)
    \/ Tick
    \/ Restart

SecuritySpec == SecurityInit /\ [][SecurityNext]_vars

\* the ledger as the program finds it: empty, or holding one row of an
\* earlier version
LedgerInit ==
    /\ PipelineIdle
    /\ SecurityIdle
    /\ RestoreIdle
    /\ RmIdle
    /\ FilesIdle
    /\ FirstRun
    /\ EncryptIdle
    /\ MetadataIdle
    /\ BackupIdle
    /\ audit_rows \in {<<>>} \cup {<<row>> : row \in LegacyRows}
    /\ ledger_clock = 1
    /\ tamper = NoTamper
    /\ integrity_report = NoReport
    /\ written = {}

LedgerNext == LogEvent \/ Verify \/ ClockTick \/ Tamper

LedgerSpec == LedgerInit /\ [][LedgerNext]_vars

RestoreInit ==
    /\ PipelineIdle
    /\ SecurityIdle
    /\ LedgerIdle
    /\ RestoreIdle
    /\ RmIdle
    /\ FilesIdle
    /\ FirstRun
    /\ EncryptIdle
    /\ MetadataIdle
    /\ BackupIdle

RestoreNext == RestoreBegin \/ RestoreFile \/ RestoreEnd

RestoreSpec == RestoreInit /\ [][RestoreNext]_vars

RestoreManagerInit ==
    /\ PipelineIdle
    /\ SecurityIdle
    /\ LedgerIdle
    /\ RestoreIdle
    /\ RmIdle
    /\ FilesIdle
    /\ FirstRun
    /\ EncryptIdle
    /\ MetadataIdle
    /\ BackupIdle

RestoreManagerNext ==
    \/ RestoreFilesBegin
    \/ RestoreFilesEntry
    \/ RestoreFilesEnd
    \/ RestoreSingleFile

RestoreManagerSpec == RestoreManagerInit /\ [][RestoreManagerNext]_vars

FileIntegrityInit ==
    /\ PipelineIdle
    /\ SecurityIdle
    /\ LedgerIdle
    /\ RestoreIdle
    /\ RmIdle
    /\ FilesIdle
    /\ FirstRun
    /\ EncryptIdle
    /\ MetadataIdle
    /\ BackupIdle

FileIntegrityNext ==
    \/ RegisterFileHash
    \/ VerifyFileIntegrity
    \/ WriteFile
    \/ DeleteFile
    \/ ChmodFileReadable

FileIntegritySpec == FileIntegrityInit /\ [][FileIntegrityNext]_vars

\* an instance without callbacks and without encryption, run repeatedly
\* on a small batch
RerunInit ==
    /\ Init
    /\ N <= RerunFiles
    /\ ~progress_callback
    /\ ~step_callback
    /\ ~enable_encryption

RerunNext ==
    \/ ExecuteBegin
    \/ StepScan
    \/ StepBackup
    \/ StepHashBefore
    \/ ChangePermissionBegin
    \/ ChmodFile
    \/ ChangePermissionEnd
    \/ StepHashAfter
    \/ Corrupt
    \/ OwnerEdits
    \/ ExecuteAgain

RerunSpec == RerunInit /\ [][RerunNext]_vars

EncryptionInit ==
    /\ PipelineIdle
    /\ SecurityIdle
    /\ LedgerIdle
    /\ RestoreIdle
    /\ RmIdle
    /\ FilesIdle
    /\ FirstRun
    /\ EncryptIdle
    /\ MetadataIdle
    /\ BackupIdle

EncryptionNext == CreatePlainFile \/ EncryptFile \/ EncTick

EncryptionSpec == EncryptionInit /\ [][EncryptionNext]_vars

MetadataInit ==
    /\ PipelineIdle
    /\ SecurityIdle
    /\ LedgerIdle
    /\ RestoreIdle
    /\ RmIdle
    /\ FilesIdle
    /\ FirstRun
    /\ EncryptIdle
    /\ MetadataIdle
    /\ BackupIdle

MetadataNext ==
    LogPermissionChange \/ RevertSome \/ TargetAppears \/ TargetRemoved

MetadataSpec == MetadataInit /\ [][MetadataNext]_vars

BackupInit ==
    /\ PipelineIdle
    /\ SecurityIdle
    /\ LedgerIdle
    /\ RestoreIdle
    /\ RmIdle
    /\ FilesIdle
    /\ FirstRun
    /\ EncryptIdle
    /\ MetadataIdle
    /\ BackupIdle

BackupNext ==
    \/ PutFile
    \/ BackupTick
    \/ CreateZipBackup
    \/ RestoreSomeArchive
    \/ CreatePermissionBackup

BackupSpec == BackupInit /\ [][BackupNext]_vars

FailOpenNext ==
    \/ \E c \in Callers : DecryptBegin(c)
    \/ \E c \in Callers : DecryptEnd(c)
    \/ \E c \in Callers : DecryptBeginStoreDown(c)
    \/ \E c \in Callers : DecryptEndStoreDown(c)
    \/ Tick
    \/ Restart

FailOpenSpec == SecurityInit /\ [][FailOpenNext]_vars
====
